---- MODULE Spec2Model ----
(***************************************************************************)
(* Model of the multi-year fiscal projection engine of the French budget   *)
(* simulator (src/src/projection-engine-v1.8.js).                          *)
(*                                                                         *)
(* Number representation.  The engine computes with IEEE doubles; here     *)
(* every quantity is a fixed-point integer and every product or quotient   *)
(* is truncated to the grid of its result:                                 *)
(*   money (gdp, debt, deficit, interest) ............ 0.001 Md EUR        *)
(*   decimal rates (interest rate, growth, boost) .... 0.00000001          *)
(*   debt/GDP ratio handed to the rate curve ......... 0.0001 pp           *)
(* Snapshot fields keep the display grid the code rounds them to:          *)
(*   gdp, deficit, interest, primaryDeficit, debt .... 0.1 Md EUR          *)
(*   debtRatio, deficitRatio ......................... 0.1 pp              *)
(*   interestRatio, effectiveInterestRate,                                 *)
(*   nominalGrowthRate ............................... 0.01 pp             *)
(*   riskPremiumBps .................................. 1 bp                *)
(***************************************************************************)
EXTENDS Integers, Sequences, FiniteSets, TLC

VARIABLES
    entry,          \* exported function under call
    pc,             \* position inside that call: "call", "loop" or "done"
    rateArgs,       \* calculateInterestRate: the debt ratios and the options
    rateRes,        \* calculateInterestRate: the values returned so far
    boostArgs,      \* calculateReformGrowthBoost: the years and the reform
    boostRes,       \* calculateReformGrowthBoost: the values returned so far
    policyChanges,  \* projectFiscalPath: first argument
    options,        \* projectFiscalPath: second argument
    t,              \* projectFiscalPath: loop counter
    gdp,            \* projectFiscalPath: local gdp
    debt,           \* projectFiscalPath: local debt
    results,        \* projectFiscalPath: the array of snapshots
    trace,          \* history: the unrounded locals of each iteration
    divisors,       \* history: the divisors of the divisions evaluated so far
    args,           \* arguments of getBaselineProjection and of the utilities
    idx,            \* compareProjections, validateProjection: loop position
    comparisons,    \* compareProjections: the array built so far
    assessments,    \* assessDoomLoop: the values returned so far
    warnings,       \* validateProjection: the warnings pushed so far
    validation,     \* validateProjection: the value returned, once returned
    selectedReforms,        \* App: the state selectedReforms
    combinedReformEffect,   \* App: the memo combinedReformEffect
    levers,         \* App: the ten lever states, in tenths of their unit
    policyImpact,   \* App: the memo policyImpact
    shown,          \* App: which conditional sections the render displays
    sliderMoves,    \* history: the number of slider moves of the session
    returned,       \* the memo projections: the projections returned so far
    isAdvancedMode, \* BudgetSimulator: the state isAdvancedMode
    taxRates,       \* BudgetSimulator: the state taxRates, taxId -> rate
    spendingLevels, \* BudgetSimulator: the state spendingLevels
    budget,         \* BudgetSimulator: the memo budget
    selectedReform, \* App v1.8: the state selectedReform
    projectionYears,        \* App v1.8: the state projectionYears
    projections,    \* App v1.8: the memo projections
    chart           \* App v1.8: the data of the reform-impact chart

rateVars == <<rateArgs, rateRes>>

boostVars == <<boostArgs, boostRes>>

projVars == <<policyChanges, options, t, gdp, debt, results, trace>>

utilVars == <<args, idx, comparisons, assessments, warnings, validation>>

appVars == <<selectedReforms, combinedReformEffect, levers, policyImpact, shown,
            sliderMoves>>

sessionVars == <<returned>>

budgetVars == <<isAdvancedMode, taxRates, spendingLevels, budget>>

v18Vars == <<selectedReform, projectionYears, projections, chart>>

vars == <<entry, pc, rateVars, boostVars, projVars, divisors, utilVars, appVars,
          sessionVars, budgetVars, v18Vars>>

----------------------------------------------------------------------------
(* Arithmetic *)

Abs(x) == IF x < 0 THEN -x ELSE x

Sign(x) == IF x < 0 THEN -1 ELSE 1

\* a * b of two values of which one is on the 0.00000001 grid, truncated
\* toward zero; the product is formed in parts so that no intermediate
\* value leaves the 32-bit range
MulRate(a, b) ==
    LET x  == Abs(a)
        y  == Abs(b)
        x1 == x \div 10000
        x0 == x % 10000
        y1 == y \div 10000
        y0 == y % 10000
        m  == x1 * y1 + ((x1 * y0 + x0 * y1 + ((x0 * y0) \div 10000)) \div 10000)
    IN  Sign(a) * Sign(b) * m

\* a / b truncated toward zero
DivTrunc(a, b) == Sign(a) * Sign(b) * (Abs(a) \div Abs(b))

RECURSIVE LongDiv(_, _, _, _)
\* n further decimal digits of the quotient q rem r of a division by b
LongDiv(q, r, b, n) ==
    IF n = 0 THEN q
    ELSE LongDiv(q * 10 + ((r * 10) \div b), (r * 10) % b, b, n - 1)

\* (a / b) * 100 on the grid of 10^-k percentage points, b > 0
Percent(a, b, k) ==
    Sign(a) * LongDiv(Abs(a) \div b, Abs(a) % b, b, k + 2)

\* Math.round(x * s) / s for a value x that is n grid steps, where one step
\* of the result is f grid steps of x: halves go up, as in JavaScript
MathRound(n, f) == (2 * n + f) \div (2 * f)

RECURSIVE MathPow(_, _)
\* Math.pow(base, n) for a base on the 0.00000001 grid and an integer n >= 0
MathPow(base, n) ==
    IF n = 0 THEN 100000000 ELSE MulRate(MathPow(base, n - 1), base)

----------------------------------------------------------------------------
(* BASELINE PARAMETERS *)

MACRO_BASELINE ==
    [ year             |-> 2025,
      gdp              |-> 2850000,
      debt             |-> 3300000,
      debtToGdp        |-> 1158000,
      baseInterestRate |-> 3200000,
      riskPremium      |-> [ enabled    |-> TRUE,
                             threshold1 |-> 600000,
                             slope1     |-> 3,
                             threshold2 |-> 900000,
                             slope2     |-> 4,
                             threshold3 |-> 1200000,
                             slope3     |-> 10,
                             politicalPremium |-> 0 ],
      nominalGrowth    |-> 2900000,
      realGrowth       |-> 1100000,
      inflation        |-> 1800000,
      primaryDeficit   |-> 84000,
      taxElasticity    |-> 45000000 ]

STRUCTURAL_REFORMS ==
    [ laborMarket             |-> [growthEffect |-> 150000, lag |-> 2, duration |-> 10],
      productMarketRegulation |-> [growthEffect |-> 100000, lag |-> 2, duration |-> 8],
      planning                |-> [growthEffect |-> 150000, lag |-> 3, duration |-> 15],
      education               |-> [growthEffect |-> 80000, lag |-> 5, duration |-> 20],
      energy                  |-> [growthEffect |-> 120000, lag |-> 2, duration |-> 10],
      ambitious               |-> [growthEffect |-> 400000, lag |-> 2, duration |-> 12],
      modest                  |-> [growthEffect |-> 200000, lag |-> 2, duration |-> 10] ]

----------------------------------------------------------------------------
(* INTEREST RATE CALCULATION *)

\* Regime2Premium with the excess taken the wrong way round
Regime2PremiumFlipped(debtRatio) ==
    LET riskPremium == MACRO_BASELINE.riskPremium
        excess      == riskPremium.threshold1 - debtRatio
    IN  excess * riskPremium.slope1

\* premium of regime 2, for threshold1 < debtRatio <= threshold2
Regime2Premium(debtRatio) ==
    LET riskPremium == MACRO_BASELINE.riskPremium
        excess      == debtRatio - riskPremium.threshold1
    IN  excess * riskPremium.slope1

\* Regime3Premium without the premium accrued in regime 2
Regime3PremiumNoCarry(debtRatio) ==
    LET riskPremium == MACRO_BASELINE.riskPremium
        excess      == debtRatio - riskPremium.threshold2
    IN  excess * riskPremium.slope2

\* premium of regime 3, for threshold2 < debtRatio <= threshold3
Regime3Premium(debtRatio) ==
    LET riskPremium    == MACRO_BASELINE.riskPremium
        regime2Premium == (riskPremium.threshold2 - riskPremium.threshold1)
                              * riskPremium.slope1
        excess         == debtRatio - riskPremium.threshold2
    IN  regime2Premium + (excess * riskPremium.slope2)

\* Regime4Premium without the premium accrued in regime 3
Regime4PremiumNoCarry(debtRatio) ==
    LET riskPremium    == MACRO_BASELINE.riskPremium
        regime2Premium == (riskPremium.threshold2 - riskPremium.threshold1)
                              * riskPremium.slope1
        excess         == debtRatio - riskPremium.threshold3
    IN  regime2Premium + (excess * riskPremium.slope3)

\* premium of regime 4, for debtRatio > threshold3
Regime4Premium(debtRatio) ==
    LET riskPremium    == MACRO_BASELINE.riskPremium
        regime2Premium == (riskPremium.threshold2 - riskPremium.threshold1)
                              * riskPremium.slope1
        regime3Premium == (riskPremium.threshold3 - riskPremium.threshold2)
                              * riskPremium.slope2
        excess         == debtRatio - riskPremium.threshold3
    IN  regime2Premium + regime3Premium + (excess * riskPremium.slope3)

\* calculateInterestRate without the early return for a disabled premium
calculateInterestRateNoBypass(debtRatio, opts) ==
    LET riskPremium == MACRO_BASELINE.riskPremium
        premium ==
            IF debtRatio <= riskPremium.threshold1 THEN 0
            ELSE IF debtRatio <= riskPremium.threshold2
                 THEN Regime2Premium(debtRatio)
            ELSE IF debtRatio <= riskPremium.threshold3
                 THEN Regime3Premium(debtRatio)
            ELSE Regime4Premium(debtRatio)
    IN  opts.baseRate + premium + opts.politicalRisk

calculateInterestRate(debtRatio, opts) ==
    IF ~opts.enablePremium
    THEN opts.baseRate + opts.politicalRisk
    ELSE LET riskPremium == MACRO_BASELINE.riskPremium
             premium ==
                 IF debtRatio <= riskPremium.threshold1 THEN 0
                 ELSE IF debtRatio <= riskPremium.threshold2
                      THEN Regime2Premium(debtRatio)
                 ELSE IF debtRatio <= riskPremium.threshold3
                      THEN Regime3Premium(debtRatio)
                 ELSE Regime4Premium(debtRatio)
         IN  opts.baseRate + premium + opts.politicalRisk

----------------------------------------------------------------------------
(* STRUCTURAL REFORM GROWTH PATH *)

decayRate == 93000000

\* ReformBoostEval with the phase-in guard year <= lag: with lag = 0 year 0
\* evaluates 0 / 0 (NaN, shown as 0 here; the divisor is recorded)
ReformBoostEvalLagInclusive(year, reform) ==
    LET growthEffect == reform.growthEffect
        lag          == reform.lag
        duration     == reform.duration
    IN  IF year <= lag
        THEN [ value    |-> IF lag = 0 THEN 0 ELSE DivTrunc(growthEffect * year, lag),
               divisors |-> {lag} ]
        ELSE IF year < lag + duration
        THEN [ value |-> growthEffect, divisors |-> {} ]
        ELSE LET yearsSincePeak == year - (lag + duration)
             IN  [ value    |-> MulRate(growthEffect, MathPow(decayRate, yearsSincePeak)),
                   divisors |-> {} ]

\* the body of calculateReformGrowthBoost: the value returned and the
\* divisors of the divisions evaluated on the way
ReformBoostEval(year, reform) ==
    LET growthEffect == reform.growthEffect
        lag          == reform.lag
        duration     == reform.duration
    IN  IF year < lag
        THEN \* growthEffect * (year / lag)
             [ value    |-> DivTrunc(growthEffect * year, lag),
               divisors |-> {lag} ]
        ELSE IF year < lag + duration
        THEN [ value |-> growthEffect, divisors |-> {} ]
        ELSE LET yearsSincePeak == year - (lag + duration)
             IN  [ value    |-> MulRate(growthEffect, MathPow(decayRate, yearsSincePeak)),
                   divisors |-> {} ]

\* calculateReformGrowthBoost with the fade counted from the end of the lag
calculateReformGrowthBoostNoDuration(year, reform) ==
    LET growthEffect == reform.growthEffect
        lag          == reform.lag
        duration     == reform.duration
    IN  IF year < lag
        THEN DivTrunc(growthEffect * year, lag)
        ELSE IF year < lag + duration
        THEN growthEffect
        ELSE LET yearsSincePeak == year - lag
             IN  MulRate(growthEffect, MathPow(decayRate, yearsSincePeak))

\* calculateReformGrowthBoost with the fade cut to zero after ten years
calculateReformGrowthBoostCutOff(year, reform) ==
    LET growthEffect == reform.growthEffect
        lag          == reform.lag
        duration     == reform.duration
    IN  IF year < lag
        THEN DivTrunc(growthEffect * year, lag)
        ELSE IF year < lag + duration
        THEN growthEffect
        ELSE LET yearsSincePeak == year - (lag + duration)
             IN  IF yearsSincePeak > 10
                 THEN 0
                 ELSE MulRate(growthEffect, MathPow(decayRate, yearsSincePeak))

calculateReformGrowthBoost(year, reform) == ReformBoostEval(year, reform).value

----------------------------------------------------------------------------
(* MULTI-YEAR FISCAL PROJECTION *)

\* step 1 of the loop body: the growth rate of year tt
NominalGrowth(tt, pol, opts) ==
    LET withPolicy == MACRO_BASELINE.nominalGrowth + pol.growthEffect
    IN  IF Len(opts.structuralReform) > 0
        THEN withPolicy + calculateReformGrowthBoost(tt, opts.structuralReform[1])
        ELSE withPolicy

\* YearLocals with the spending change added to the deficit improvement
YearLocalsSpendingAdded(tt, g, d, pol, opts) ==
    LET deficitImprovement == pol.revenueChange + pol.spendingChange
        nominalGrowth  == NominalGrowth(tt, pol, opts)
        debtRatio      == Percent(d, g, 4)
        effectiveRate  == calculateInterestRate(debtRatio,
                              [ baseRate      |-> MACRO_BASELINE.baseInterestRate,
                                enablePremium |-> opts.enableRiskPremium,
                                politicalRisk |-> opts.politicalRiskPremium ])
        interest       == MulRate(d, effectiveRate)
        primaryDeficit == MACRO_BASELINE.primaryDeficit - deficitImprovement
        totalDeficit   == primaryDeficit + interest
        growthFeedback == MulRate(
                              MulRate(nominalGrowth - MACRO_BASELINE.nominalGrowth, g),
                              MACRO_BASELINE.taxElasticity)
        adjustedDeficit == totalDeficit - growthFeedback
    IN  [ gdp             |-> g,
          debt            |-> d,
          nominalGrowth   |-> nominalGrowth,
          debtRatio       |-> debtRatio,
          effectiveRate   |-> effectiveRate,
          interest        |-> interest,
          primaryDeficit  |-> primaryDeficit,
          totalDeficit    |-> totalDeficit,
          growthFeedback  |-> growthFeedback,
          adjustedDeficit |-> adjustedDeficit ]

\* steps 2 to 4 of the loop body: the locals of year tt computed from the
\* stocks g (gdp) and d (debt) at the start of the year
YearLocals(tt, g, d, pol, opts) ==
    LET deficitImprovement == pol.revenueChange - pol.spendingChange
        nominalGrowth  == NominalGrowth(tt, pol, opts)
        debtRatio      == Percent(d, g, 4)
        effectiveRate  == calculateInterestRate(debtRatio,
                              [ baseRate      |-> MACRO_BASELINE.baseInterestRate,
                                enablePremium |-> opts.enableRiskPremium,
                                politicalRisk |-> opts.politicalRiskPremium ])
        interest       == MulRate(d, effectiveRate)
        primaryDeficit == MACRO_BASELINE.primaryDeficit - deficitImprovement
        totalDeficit   == primaryDeficit + interest
        growthFeedback == MulRate(
                              MulRate(nominalGrowth - MACRO_BASELINE.nominalGrowth, g),
                              MACRO_BASELINE.taxElasticity)
        adjustedDeficit == totalDeficit - growthFeedback
    IN  [ gdp             |-> g,
          debt            |-> d,
          nominalGrowth   |-> nominalGrowth,
          debtRatio       |-> debtRatio,
          effectiveRate   |-> effectiveRate,
          interest        |-> interest,
          primaryDeficit  |-> primaryDeficit,
          totalDeficit    |-> totalDeficit,
          growthFeedback  |-> growthFeedback,
          adjustedDeficit |-> adjustedDeficit ]

\* the divisors of the divisions of one iteration: lag in the reform boost
\* (line 225) and gdp in the three ratios (lines 294, 325, 326)
YearDivisors(tt, g, opts) ==
    {g} \cup (IF Len(opts.structuralReform) > 0
              THEN ReformBoostEval(tt, opts.structuralReform[1]).divisors
              ELSE {})

\* step 5 of the loop body: the snapshot pushed for year tt
Snapshot(tt, loc) ==
    [ year                  |-> MACRO_BASELINE.year + tt,
      gdp                   |-> MathRound(loc.gdp, 100),
      deficit               |-> MathRound(loc.adjustedDeficit, 100),
      interest              |-> MathRound(loc.interest, 100),
      primaryDeficit        |-> MathRound(loc.primaryDeficit, 100),
      debt                  |-> MathRound(loc.debt, 100),
      debtRatio             |-> MathRound(loc.debtRatio, 1000),
      deficitRatio          |-> MathRound(Percent(loc.adjustedDeficit, loc.gdp, 2), 10),
      interestRatio         |-> MathRound(Percent(loc.interest, loc.gdp, 3), 10),
      effectiveInterestRate |-> MathRound(loc.effectiveRate, 10000),
      nominalGrowthRate     |-> MathRound(loc.nominalGrowth, 10000),
      riskPremiumBps        |-> MathRound(loc.effectiveRate
                                              - MACRO_BASELINE.baseInterestRate, 10000) ]

\* EvolveGdp with the policy and reform growth left out
EvolveGdpBaselineOnly(g, loc) == g + MulRate(g, MACRO_BASELINE.nominalGrowth)

\* step 6 of the loop body
EvolveGdp(g, loc) == g + MulRate(g, loc.nominalGrowth)

\* EvolveDebt with the growth feedback left out
EvolveDebtTotalOnly(d, loc) == d + loc.totalDeficit

EvolveDebt(d, loc) == d + loc.adjustedDeficit

\* LoopCondition stopping one year early
LoopConditionStrict(tt, years) == tt < years

\* the loop condition
LoopCondition(tt, years) == tt <= years

RECURSIVE ProjectFrom(_, _, _, _, _)
\* the snapshots pushed from year tt on, with the stocks g and d at its start
ProjectFrom(tt, g, d, pol, opts) ==
    IF LoopCondition(tt, opts.years)
    THEN LET loc == YearLocals(tt, g, d, pol, opts)
         IN  <<Snapshot(tt, loc)>>
             \o ProjectFrom(tt + 1, EvolveGdp(g, loc), EvolveDebt(d, loc), pol, opts)
    ELSE <<>>

\* the value projectFiscalPath returns
projectFiscalPath(pol, opts) ==
    ProjectFrom(0, MACRO_BASELINE.gdp, MACRO_BASELINE.debt, pol, opts)

NoReform == <<>>

\* BaselineCall with the horizon argument dropped (the default of 10 years)
BaselineCallDefaultYears(years) ==
    [ policyChanges |-> [revenueChange |-> 0, spendingChange |-> 0, growthEffect |-> 0],
      options       |-> [ years                |-> 10,
                          enableRiskPremium    |-> TRUE,
                          politicalRiskPremium |-> 0,
                          structuralReform     |-> NoReform ] ]

\* the arguments getBaselineProjection passes to projectFiscalPath;
\* politicalRiskPremium is left to its default
BaselineCall(years) ==
    [ policyChanges |-> [revenueChange |-> 0, spendingChange |-> 0, growthEffect |-> 0],
      options       |-> [ years                |-> years,
                          enableRiskPremium    |-> TRUE,
                          politicalRiskPremium |-> 0,
                          structuralReform     |-> NoReform ] ]

----------------------------------------------------------------------------
(* UTILITY FUNCTIONS: compareProjections *)

\* CompareSkips with the two length tests joined by "and"
CompareSkipsBoth(offset, projectionA, projectionB) ==
    offset >= Len(projectionA) /\ offset >= Len(projectionB)

\* the test that skips an offset (arrays are indexed from 0 in the source and
\* from 1 here)
CompareSkips(offset, projectionA, projectionB) ==
    offset >= Len(projectionA) \/ offset >= Len(projectionB)

\* an index expression projection[offset] that is undefined, so that reading
\* a property of it throws a TypeError
Undefined(projection, offset) == offset < 0 \/ offset >= Len(projection)

\* CompareEntry with the differences taken as B - A
CompareEntryReversed(offset, a, b) ==
    [ year             |-> a.year,
      yearOffset       |-> offset,
      debtRatioDiff    |-> MathRound(b.debtRatio - a.debtRatio, 1),
      deficitRatioDiff |-> MathRound(b.deficitRatio - a.deficitRatio, 1),
      interestDiff     |-> MathRound(b.interest - a.interest, 1) ]

\* the entry pushed for an offset; the snapshot fields are in tenths, so
\* Math.round(x * 10) / 10 is MathRound(x, 1)
CompareEntry(offset, a, b) ==
    [ year             |-> a.year,
      yearOffset       |-> offset,
      debtRatioDiff    |-> MathRound(a.debtRatio - b.debtRatio, 1),
      deficitRatioDiff |-> MathRound(a.deficitRatio - b.deficitRatio, 1),
      interestDiff     |-> MathRound(a.interest - b.interest, 1) ]

RECURSIVE compareProjections(_, _, _)
\* the value compareProjections returns for offsets within 0..length
compareProjections(projectionA, projectionB, targetYears) ==
    IF Len(targetYears) = 0
    THEN <<>>
    ELSE LET offset == Head(targetYears)
         IN  (IF CompareSkips(offset, projectionA, projectionB)
              THEN <<>>
              ELSE <<CompareEntry(offset, projectionA[offset + 1],
                                  projectionB[offset + 1])>>)
             \o compareProjections(projectionA, projectionB, Tail(targetYears))

----------------------------------------------------------------------------
(* UTILITY FUNCTIONS: assessDoomLoop *)

\* severity > threshold / 100, for severity = interestIncrease / divisor with
\* interestIncrease in hundredths of a point and divisor in tenths:
\* interestIncrease / (10 * divisor) > threshold / 100.  With divisor = 0 the
\* quotient is Infinity for a positive interestIncrease (above every
\* threshold) and -Infinity or NaN otherwise (above none), which is what the
\* cross-multiplied test gives
SeverityAbove(interestIncrease, divisor, threshold) ==
    10 * interestIncrease > threshold * divisor

SeverityLabel(interestIncrease, divisor) ==
    IF SeverityAbove(interestIncrease, divisor, 30)
    THEN "high"
    ELSE IF SeverityAbove(interestIncrease, divisor, 15)
    THEN "medium"
    ELSE "low"

\* DoomLoopActive with the threshold included
DoomLoopActiveInclusive(premiumIncrease) == premiumIncrease >= 20

DoomLoopActive(premiumIncrease) == premiumIncrease > 20

\* AssessEval with end taken as the snapshot after the first
AssessEvalSecondYear(projection) ==
    LET start            == projection[1]
        end              == projection[IF Len(projection) > 1 THEN 2 ELSE 1]
        debtIncrease     == end.debtRatio - start.debtRatio
        interestIncrease == end.interestRatio - start.interestRatio
        premiumIncrease  == end.riskPremiumBps - start.riskPremiumBps
        divisor          == Abs(end.deficitRatio)
    IN  [ value    |-> [ debtRatioChange     |-> MathRound(debtIncrease, 1),
                         interestRatioChange |-> MathRound(interestIncrease, 1),
                         premiumIncreaseBps  |-> MathRound(premiumIncrease, 1),
                         severity            |-> SeverityLabel(interestIncrease, divisor),
                         doomLoopActive      |-> DoomLoopActive(premiumIncrease) ],
          divisors |-> {divisor} ]

\* the body of assessDoomLoop on a non-empty projection: the value returned
\* and the divisor of the division that computes severity
AssessEval(projection) ==
    LET start            == projection[1]
        end              == projection[Len(projection)]
        debtIncrease     == end.debtRatio - start.debtRatio
        interestIncrease == end.interestRatio - start.interestRatio
        premiumIncrease  == end.riskPremiumBps - start.riskPremiumBps
        divisor          == Abs(end.deficitRatio)
    IN  [ value    |-> [ debtRatioChange     |-> MathRound(debtIncrease, 1),
                         interestRatioChange |-> MathRound(interestIncrease, 1),
                         premiumIncreaseBps  |-> MathRound(premiumIncrease, 1),
                         severity            |-> SeverityLabel(interestIncrease, divisor),
                         doomLoopActive      |-> DoomLoopActive(premiumIncrease) ],
          divisors |-> {divisor} ]

assessDoomLoop(projection) == AssessEval(projection).value

----------------------------------------------------------------------------
(* UTILITY FUNCTIONS: validateProjection *)

\* gdpGrowth < -5 for gdpGrowth = (year.gdp / prev.gdp - 1) * 100, prev.gdp > 0
GdpCollapse(year, prev) == 100 * (year.gdp - prev.gdp) < -5 * prev.gdp

\* gdpGrowth.toFixed(1), in tenths of a percent
GdpGrowthShown(year, prev) == MathRound(Percent(year.gdp - prev.gdp, prev.gdp, 2), 10)

\* a warning string, as the parts that are put into it
Warning(kind, year, value) == [kind |-> kind, year |-> year.year, value |-> value]

\* YearWarnings with the debt test including 200
YearWarningsInclusive(projection, i) ==
    LET year == projection[i + 1]
        prev == projection[i]
    IN  (IF year.debtRatio >= 2000
         THEN <<Warning("debt", year, year.debtRatio)>> ELSE <<>>)
        \o (IF year.effectiveInterestRate > 1000
            THEN <<Warning("rate", year, year.effectiveInterestRate)>> ELSE <<>>)
        \o (IF GdpCollapse(year, prev)
            THEN <<Warning("gdp", year, GdpGrowthShown(year, prev))>> ELSE <<>>)

\* the warnings pushed by the loop body for projection[i], i >= 1 (the
\* source's index; the element is projection[i + 1] here): debtRatio in
\* tenths of a point, effectiveInterestRate in hundredths
YearWarnings(projection, i) ==
    LET year == projection[i + 1]
        prev == projection[i]
    IN  (IF year.debtRatio > 2000
         THEN <<Warning("debt", year, year.debtRatio)>> ELSE <<>>)
        \o (IF year.effectiveInterestRate > 1000
            THEN <<Warning("rate", year, year.effectiveInterestRate)>> ELSE <<>>)
        \o (IF GdpCollapse(year, prev)
            THEN <<Warning("gdp", year, GdpGrowthShown(year, prev))>> ELSE <<>>)

\* the value returned for the warnings collected
ValidationResult(w) == [valid |-> Len(w) = 0, warnings |-> w]

RECURSIVE WarningsFrom(_, _)
\* the warnings pushed from index i on
WarningsFrom(projection, i) ==
    IF i < Len(projection)
    THEN YearWarnings(projection, i) \o WarningsFrom(projection, i + 1)
    ELSE <<>>

validateProjection(projection) == ValidationResult(WarningsFrom(projection, 1))

\* the divisors of the divisions of validateProjection: the gdp of every
\* snapshot but the last
ValidateDivisors(projection) == { projection[i].gdp : i \in 1..(Len(projection) - 1) }

----------------------------------------------------------------------------
(* App: the combination of the selected structural reforms *)

ReformKeys == DOMAIN STRUCTURAL_REFORMS

overlapFactor == 85000000

MathMin(S) == CHOOSE x \in S : \A y \in S : x <= y

MathMax(S) == CHOOSE x \in S : \A y \in S : x >= y

RECURSIVE SumGrowthEffect(_)
\* selectedReforms.reduce((sum, key) => sum + STRUCTURAL_REFORMS[key].growthEffect, 0)
SumGrowthEffect(sel) ==
    IF Len(sel) = 0
    THEN 0
    ELSE SumGrowthEffect(SubSeq(sel, 1, Len(sel) - 1))
         + STRUCTURAL_REFORMS[sel[Len(sel)]].growthEffect

\* CombineReforms without the overlap factor
CombineReformsNoPenalty(sel) ==
    IF Len(sel) = 0
    THEN <<>>
    ELSE << [ count        |-> Len(sel),
              growthEffect |-> SumGrowthEffect(sel),
              lag          |-> MathMin({STRUCTURAL_REFORMS[sel[i]].lag : i \in 1..Len(sel)}),
              duration     |-> MathMax({STRUCTURAL_REFORMS[sel[i]].duration
                                           : i \in 1..Len(sel)}) ] >>

\* the memo combinedReformEffect: <<>> is null, otherwise the one combined
\* reform; count is the number the label shows
CombineReforms(sel) ==
    IF Len(sel) = 0
    THEN <<>>
    ELSE << [ count        |-> Len(sel),
              growthEffect |-> MulRate(SumGrowthEffect(sel), overlapFactor),
              lag          |-> MathMin({STRUCTURAL_REFORMS[sel[i]].lag : i \in 1..Len(sel)}),
              duration     |-> MathMax({STRUCTURAL_REFORMS[sel[i]].duration
                                           : i \in 1..Len(sel)}) ] >>

\* prev.includes(reformKey) ? prev.filter(k => k !== reformKey) : [...prev, reformKey]
ToggledSelection(prev, reformKey) ==
    IF \E i \in 1..Len(prev) : prev[i] = reformKey
    THEN SelectSeq(prev, LAMBDA k : k # reformKey)
    ELSE Append(prev, reformKey)

----------------------------------------------------------------------------
(* App.jsx (v1.9): baseline data, presets, sliders and memos.  Levers are in
   tenths of their unit (0.5 is 5), BASELINE amounts in tenths of a Md EUR *)

BASELINE ==
    [ etat            |-> [ incomeTax    |-> 941,
                            vat          |-> 975,
                            corporateTax |-> 513,
                            education    |-> 889,
                            defense      |-> 650,
                            solidarity   |-> 300 ],
      securiteSociale |-> [ cotisations |-> 4500,
                            csg         |-> 1500,
                            pensions    |-> 2910,
                            health      |-> 2510 ] ]

PRESETS ==
    [ plf2025 |->
          [ levers  |-> [ incomeTaxChange     |-> 5,
                          vatChange           |-> 0,
                          corpTaxChange       |-> 10,
                          spendingEducation   |-> -20,
                          spendingDefense     |-> 0,
                          spendingSolidarity  |-> -50,
                          pensionIndexation   |-> -10,
                          healthSpending      |-> -20,
                          socialContributions |-> 0,
                          csgRate             |-> 0 ],
            reforms |-> <<>> ],
      generationLibre |->
          [ levers  |-> [ incomeTaxChange     |-> -30,
                          vatChange           |-> 0,
                          corpTaxChange       |-> -50,
                          spendingEducation   |-> -100,
                          spendingDefense     |-> 0,
                          spendingSolidarity  |-> -150,
                          pensionIndexation   |-> -20,
                          healthSpending      |-> -80,
                          socialContributions |-> -20,
                          csgRate             |-> 0 ],
            reforms |-> <<"labor", "planning">> ],
      knafo |->
          [ levers  |-> [ incomeTaxChange     |-> -20,
                          vatChange           |-> 0,
                          corpTaxChange       |-> -40,
                          spendingEducation   |-> -100,
                          spendingDefense     |-> 0,
                          spendingSolidarity  |-> -600,
                          pensionIndexation   |-> 0,
                          healthSpending      |-> -50,
                          socialContributions |-> 0,
                          csgRate             |-> 0 ],
            reforms |-> <<>> ],
      nfp |->
          [ levers  |-> [ incomeTaxChange     |-> 50,
                          vatChange           |-> 0,
                          corpTaxChange       |-> 30,
                          spendingEducation   |-> 100,
                          spendingDefense     |-> 0,
                          spendingSolidarity  |-> 150,
                          pensionIndexation   |-> 10,
                          healthSpending      |-> 50,
                          socialContributions |-> 0,
                          csgRate             |-> 20 ],
            reforms |-> <<>> ] ]

\* the min and max of the SliderControl that displays each lever
Sliders ==
    [ incomeTaxChange     |-> [min |-> -100, max |-> 100],
      vatChange           |-> [min |-> -50, max |-> 50],
      corpTaxChange       |-> [min |-> -100, max |-> 50],
      spendingEducation   |-> [min |-> -200, max |-> 200],
      spendingDefense     |-> [min |-> -150, max |-> 150],
      spendingSolidarity  |-> [min |-> -300, max |-> 300],
      pensionIndexation   |-> [min |-> -20, max |-> 10],
      healthSpending      |-> [min |-> -100, max |-> 100],
      socialContributions |-> [min |-> -50, max |-> 50],
      csgRate             |-> [min |-> -20, max |-> 20] ]

LeverIds == DOMAIN Sliders

\* useState(0) of every lever
InitialLevers == [l \in LeverIds |-> 0]

\* the memo policyImpact, the three fields projectFiscalPath reads
PolicyImpact(lv) ==
    LET incomeRevenue == lv.incomeTaxChange * BASELINE.etat.incomeTax * 9
        vatRevenue    == DivTrunc(lv.vatChange * BASELINE.etat.vat * 95, 10)
        corpRevenue   == lv.corpTaxChange * BASELINE.etat.corporateTax * 7
        educationSpending  == DivTrunc(lv.spendingEducation * BASELINE.etat.education, 10)
        defenseSpending    == DivTrunc(lv.spendingDefense * BASELINE.etat.defense, 10)
        solidaritySpending == DivTrunc(lv.spendingSolidarity * BASELINE.etat.solidarity, 10)
        etatRevenueChange  == incomeRevenue + vatRevenue + corpRevenue
        etatSpendingChange == educationSpending + defenseSpending + solidaritySpending
        socialContribRevenue ==
            DivTrunc(lv.socialContributions * BASELINE.securiteSociale.cotisations, 10)
        csgRevenue == DivTrunc(lv.csgRate * BASELINE.securiteSociale.csg, 10)
        pensionSpendingChange ==
            DivTrunc(lv.pensionIndexation * BASELINE.securiteSociale.pensions, 10)
        healthSpendingChange ==
            DivTrunc(lv.healthSpending * BASELINE.securiteSociale.health, 10)
        ssRevenueChange     == socialContribRevenue + csgRevenue
        ssSpendingChange    == pensionSpendingChange + healthSpendingChange
        totalRevenueChange  == etatRevenueChange + ssRevenueChange
        totalSpendingChange == etatSpendingChange + ssSpendingChange
        corpGrowthEffect ==
            IF lv.corpTaxChange < 0 THEN Abs(lv.corpTaxChange) * 20000 ELSE 0
        spendingGrowthEffect ==
            IF totalSpendingChange < 0 THEN totalSpendingChange * 10 ELSE 0
        socialContribGrowthEffect ==
            IF lv.socialContributions < 0 THEN Abs(lv.socialContributions) * 10000 ELSE 0
    IN  [ revenueChange  |-> totalRevenueChange,
          spendingChange |-> totalSpendingChange,
          growthEffect   |-> corpGrowthEffect + spendingGrowthEffect
                                 + socialContribGrowthEffect ]

\* obj.field && ..., for a boolean field: a property the object does not
\* have reads as undefined, which is falsy
Truthy(obj, field) == field \in DOMAIN obj /\ obj[field]

\* the conditional sections of the render: doomLoopAssessment.isAtRisk && ...
\* and !validation.isValid && ...
Sections(assessment, validationResult) ==
    [ doomLoop   |-> Truthy(assessment, "isAtRisk"),
      validation |-> ~Truthy(validationResult, "isValid") ]

\* combinedReformEffect reads STRUCTURAL_REFORMS[key].growthEffect of every
\* selected key: a key that is not in the catalog makes the memo throw
MemoThrows(sel) == \E i \in 1..Len(sel) : sel[i] \notin ReformKeys

\* before any render
NoSections == [doomLoop |-> FALSE, validation |-> FALSE]

\* the sessions of App explored: reform checkboxes and presets, or sliders
\* and presets
AppEntries == {"App", "AppSliders"}

----------------------------------------------------------------------------
(* App-v1.8-test.jsx: the reform selector, the horizon buttons and the
   reform-impact chart.  The levers and the political risk stay at their
   useState value 0 *)

\* the values of the options of the reform selector
ReformOptions == {"none"} \cup ReformKeys

\* the horizon buttons
HorizonButtons == {1, 2, 5, 10}

\* the offsets of the bars of the reform-impact chart
ChartOffsets == <<1, 2, 5, 10>>

\* the memo policyImpact with every lever at 0
PolicyImpactV18 == [revenueChange |-> 0, spendingChange |-> 0, growthEffect |-> 0]

\* the options of the two scenario calls; risk is in bps
ScenarioOptions(years, risk, reform) ==
    [ years                |-> years,
      enableRiskPremium    |-> TRUE,
      politicalRiskPremium |-> risk * 10000,
      structuralReform     |-> reform ]

\* the memo projections of v1.8
ProjectionsV18(reformKey, years) ==
    LET reform == IF reformKey # "none" THEN <<STRUCTURAL_REFORMS[reformKey]>> ELSE NoReform
    IN  [ baseline       |-> projectFiscalPath(BaselineCall(years).policyChanges,
                                               BaselineCall(years).options),
          policyScenario |-> projectFiscalPath(PolicyImpactV18,
                                               ScenarioOptions(years, 0, NoReform)),
          fullScenario   |-> projectFiscalPath(PolicyImpactV18,
                                               ScenarioOptions(years, 0, reform)) ]

\* compareProjections(policyScenario, fullScenario, [y])[0] is undefined for
\* a bar of the chart or for the note, so that reading debtRatioDiff throws
ChartThrows(p, years) ==
    \/ \E i \in 1..Len(ChartOffsets) :
           Len(compareProjections(p.policyScenario, p.fullScenario,
                                  <<ChartOffsets[i]>>)) = 0
    \/ Len(compareProjections(p.policyScenario, p.fullScenario, <<years>>)) = 0

\* the data of the bar chart: debtReduction is -comp.debtRatioDiff
ChartData(p) ==
    [ i \in 1..Len(ChartOffsets) |->
        [ year          |-> ChartOffsets[i],
          debtReduction |-> -compareProjections(p.policyScenario, p.fullScenario,
                                                <<ChartOffsets[i]>>)[1].debtRatioDiff ] ]

\* before the first render, and while the chart section is not displayed
NoProjections == [baseline |-> <<>>, policyScenario |-> <<>>, fullScenario |-> <<>>]

NoChart == <<>>

----------------------------------------------------------------------------
(* budgetData and calculations: the single-period calculator.  Rates are in
   thousandths (0.267 is 267), revenuePerPoint in hundredths of a Md EUR,
   amounts in thousandths of a Md EUR *)

GDP_BASELINE == 2800000

taxConfig ==
    [ tva |->
          [ baselineRate |-> 200, minRate |-> 150, maxRate |-> 250, step |-> 5,
            baselineRevenue |-> 95000, revenuePerPoint |-> 475,
            simpleOnly |-> FALSE, advancedOnly |-> FALSE ],
      ir |->
          [ baselineRate |-> 100, minRate |-> 80, maxRate |-> 150, step |-> 5,
            baselineRevenue |-> 94000, revenuePerPoint |-> 940,
            simpleOnly |-> FALSE, advancedOnly |-> FALSE ],
      is |->
          [ baselineRate |-> 250, minRate |-> 150, maxRate |-> 350, step |-> 10,
            baselineRevenue |-> 50000, revenuePerPoint |-> 200,
            simpleOnly |-> FALSE, advancedOnly |-> FALSE ],
      cotisationsPatronalesLow |->
          [ baselineRate |-> 100, minRate |-> 50, maxRate |-> 200, step |-> 10,
            baselineRevenue |-> 52000, revenuePerPoint |-> 520,
            simpleOnly |-> FALSE, advancedOnly |-> TRUE ],
      cotisationsPatronalesHigh |->
          [ baselineRate |-> 420, minRate |-> 350, maxRate |-> 500, step |-> 10,
            baselineRevenue |-> 178000, revenuePerPoint |-> 424,
            simpleOnly |-> FALSE, advancedOnly |-> TRUE ],
      cotisationsPatronales |->
          [ baselineRate |-> 267, minRate |-> 200, maxRate |-> 350, step |-> 10,
            baselineRevenue |-> 230000, revenuePerPoint |-> 860,
            simpleOnly |-> TRUE, advancedOnly |-> FALSE ] ]

\* Object.keys(taxConfig), in the order of the source
TaxIds ==
    << "tva", "ir", "is", "cotisationsPatronalesLow", "cotisationsPatronalesHigh",
       "cotisationsPatronales" >>

spendingConfig ==
    [ education         |-> [baseline |-> 89000, min |-> 70000, max |-> 110000, step |-> 1000],
      defense           |-> [baseline |-> 50000, min |-> 35000, max |-> 65000, step |-> 1000],
      transfertsSociaux |-> [baseline |-> 120000, min |-> 90000, max |-> 150000, step |-> 1000] ]

SpendingIds == << "education", "defense", "transfertsSociaux" >>

fixedSpending == [ debtService |-> 55000, pensions |-> 66000, other |-> 110000 ]

TOTAL_FIXED_SPENDING ==
    fixedSpending.debtService + fixedSpending.pensions + fixedSpending.other

RECURSIVE SumOver(_, _)
\* ids.reduce((sum, id) => sum + amount[id], 0)
SumOver(ids, amount) ==
    IF Len(ids) = 0
    THEN 0
    ELSE SumOver(SubSeq(ids, 1, Len(ids) - 1), amount) + amount[ids[Len(ids)]]

\* Math.max(0, baselineRevenue + rateChange * revenuePerPoint * 100); 0 for an
\* unknown tax
calculateTaxRevenue(taxId, newRate) ==
    IF taxId \notin DOMAIN taxConfig
    THEN 0
    ELSE LET tax        == taxConfig[taxId]
             rateChange == newRate - tax.baselineRate
             revenue    == tax.baselineRevenue + rateChange * tax.revenuePerPoint
         IN  IF revenue > 0 THEN revenue ELSE 0

\* InMode without the mode filter
InModeAlways(tax, isAdvanced) == TRUE

\* the filter on the mode: the aggregated tax is left out in advanced mode,
\* the split ones in simple mode
InMode(tax, isAdvanced) == IF isAdvanced THEN ~tax.simpleOnly ELSE ~tax.advancedOnly

taxesToCalculate(isAdvanced) ==
    SelectSeq(TaxIds, LAMBDA taxId : InMode(taxConfig[taxId], isAdvanced))

calculateTotalRevenue(rates, isAdvanced) ==
    LET breakdown == [ taxId \in { taxesToCalculate(isAdvanced)[i]
                                     : i \in 1..Len(taxesToCalculate(isAdvanced)) } |->
                         calculateTaxRevenue(taxId,
                             IF taxId \in DOMAIN rates
                             THEN rates[taxId]
                             ELSE taxConfig[taxId].baselineRate) ]
    IN  [ breakdown |-> breakdown,
          total     |-> SumOver(taxesToCalculate(isAdvanced), breakdown) ]

calculateTotalSpending(levels) ==
    LET breakdown == [ spendingId \in DOMAIN spendingConfig |->
                         IF spendingId \in DOMAIN levels
                         THEN levels[spendingId]
                         ELSE spendingConfig[spendingId].baseline ]
        adjustableTotal == SumOver(SpendingIds, breakdown)
    IN  [ breakdown       |-> breakdown,
          adjustableTotal |-> adjustableTotal,
          fixedTotal      |-> TOTAL_FIXED_SPENDING,
          total           |-> adjustableTotal + TOTAL_FIXED_SPENDING ]

calculateBaselineDeficit ==
    LET baselineRevenue ==
            SumOver(<<"tva", "ir", "is", "cotisationsPatronales">>,
                    [taxId \in DOMAIN taxConfig |-> taxConfig[taxId].baselineRevenue])
        baselineAdjustableSpending ==
            SumOver(SpendingIds,
                    [spendingId \in DOMAIN spendingConfig |->
                         spendingConfig[spendingId].baseline])
    IN  baselineRevenue - (baselineAdjustableSpending + TOTAL_FIXED_SPENDING)

calculateBudget(rates, levels, isAdvanced) ==
    LET revenue  == calculateTotalRevenue(rates, isAdvanced)
        spending == calculateTotalSpending(levels)
        deficit  == revenue.total - spending.total
    IN  [ revenue           |-> revenue,
          spending          |-> spending,
          deficit           |-> deficit,
          deficitPercentGDP |-> Percent(deficit, GDP_BASELINE, 3),
          baselineDeficit   |-> calculateBaselineDeficit,
          deficitChange     |-> deficit - calculateBaselineDeficit,
          gdp               |-> GDP_BASELINE ]

\* getDefaultTaxRates without the mode filter
getDefaultTaxRatesAllTaxes(isAdvanced) ==
    [ taxId \in DOMAIN taxConfig |-> taxConfig[taxId].baselineRate ]

getDefaultTaxRates(isAdvanced) ==
    [ taxId \in { id \in DOMAIN taxConfig :
                     IF isAdvanced THEN ~taxConfig[id].simpleOnly
                     ELSE ~taxConfig[id].advancedOnly } |->
        taxConfig[taxId].baselineRate ]

getDefaultSpendingLevels ==
    [ spendingId \in DOMAIN spendingConfig |-> spendingConfig[spendingId].baseline ]

\* BudgetSimulator: the ids of the sliders shown in a mode
taxesToDisplay(isAdvanced) ==
    { taxId \in DOMAIN taxConfig :
        IF isAdvanced THEN ~taxConfig[taxId].simpleOnly
        ELSE ~taxConfig[taxId].advancedOnly }

\* the function prev with key set to value: {...prev, [key]: value}
Spread(prev, key, value) ==
    [ k \in DOMAIN prev \cup {key} |-> IF k = key THEN value ELSE prev[k] ]

----------------------------------------------------------------------------
(* Inputs *)

\* positions of a tax slider: the ends of its range and the baseline
TaxSliderSamples(taxId) ==
    { taxConfig[taxId].minRate, taxConfig[taxId].baselineRate, taxConfig[taxId].maxRate }

\* positions of a spending slider
SpendingSliderSamples(spendingId) ==
    { spendingConfig[spendingId].baseline, spendingConfig[spendingId].max }

MaxSelected == 3

\* slider moves of one session
MaxSliderMoves == 2

MaxYears == 10

MaxBoostYear == 16

RatioSamples ==
    { -250000, 0, 599999, 600000, 600001, 750000, 899999, 900000, 900001,
      1158000, 1199999, 1200000, 1200001, 2000000, 100000000 }

RateOptions ==
    [ baseRate      : {MACRO_BASELINE.baseInterestRate, 2500000},
      enablePremium : BOOLEAN,
      politicalRisk : {0, 500000} ]

ReformSamples ==
    [ growthEffect : {150000, 80000, -50000},
      lag          : {0, 1, 2, 5},
      duration     : {0, 1, 10} ]

PolicySamples ==
    [ revenueChange  : {0, 50000, -30000, 253400, 846900},
      spendingChange : {0, -20000},
      growthEffect   : {0, 25000, -200000} ]

OptionSamples ==
    [ years                : 0..MaxYears,
      enableRiskPremium    : BOOLEAN,
      politicalRiskPremium : {0, 500000},
      structuralReform     : { NoReform,
                               <<STRUCTURAL_REFORMS.laborMarket>>,
                               <<STRUCTURAL_REFORMS.productMarketRegulation>>,
                               <<STRUCTURAL_REFORMS.education>> } ]

\* projections handed to the utilities: what projectFiscalPath returns for a
\* few scenarios and horizons, and the empty array
ScenarioSamples ==
    { [revenueChange |-> 0, spendingChange |-> 0, growthEffect |-> 0],
      [revenueChange |-> 50000, spendingChange |-> -20000, growthEffect |-> 25000] }

ProjectionSamples ==
    { <<>> } \cup
    { projectFiscalPath(p, [ years                |-> y,
                             enableRiskPremium    |-> TRUE,
                             politicalRiskPremium |-> 0,
                             structuralReform     |-> NoReform ])
        : p \in ScenarioSamples, y \in {0, 2, MaxYears} }

\* targetYears: the default, and lists with offset 0, a repeated offset, an
\* unordered list and the empty list
OffsetSamples ==
    { <<1, 2, 5, 10>>, <<0, 1, 2, 3>>, <<2, 0, 2>>, <<11, 0>>, <<>> }

MaxProjLen == 3

\* the snapshot of the first year of the baseline
BaseSnapshot ==
    Snapshot(0, YearLocals(0, MACRO_BASELINE.gdp, MACRO_BASELINE.debt,
                           BaselineCall(0).policyChanges, BaselineCall(0).options))

\* snapshots for hand-made projections: the fields assessDoomLoop reads, set
\* around its thresholds (a premium 20 and 21 bps above another, interest
\* ratio steps that are 0.15 and 0.3 times a deficit ratio, a deficit ratio
\* of 0 and a negative one)
AssessSnapshots ==
    { [BaseSnapshot EXCEPT !.debtRatio = 1158, !.interestRatio = 590,
                           !.deficitRatio = 1, !.riskPremiumBps = 193],
      [BaseSnapshot EXCEPT !.debtRatio = 1170, !.interestRatio = 593,
                           !.deficitRatio = 2, !.riskPremiumBps = 213],
      [BaseSnapshot EXCEPT !.debtRatio = 1201, !.interestRatio = 596,
                           !.deficitRatio = -1, !.riskPremiumBps = 214],
      [BaseSnapshot EXCEPT !.debtRatio = 1100, !.interestRatio = 594,
                           !.deficitRatio = 0, !.riskPremiumBps = 100] }

\* snapshots for hand-made projections: the fields validateProjection reads,
\* on and just above its thresholds; gdp 27080 is 4.98% and 27070 is 5.02%
\* below 28500
ValidateSnapshots ==
    { [BaseSnapshot EXCEPT !.gdp = 28500],
      [BaseSnapshot EXCEPT !.debtRatio = 2000, !.effectiveInterestRate = 1000,
                           !.gdp = 27080],
      [BaseSnapshot EXCEPT !.debtRatio = 2001, !.effectiveInterestRate = 1001,
                           !.gdp = 27070],
      [BaseSnapshot EXCEPT !.debtRatio = 2001, !.gdp = 28500] }

\* the snapshots of s with the consecutive years the projector gives them
Dated(s) == [k \in 1..Len(s) |-> [s[k] EXCEPT !.year = MACRO_BASELINE.year + k - 1]]

SeqsUpTo(S, n) == UNION { [1..k -> S] : k \in 1..n }

NoRateArgs == [ratios |-> <<>>, opts |-> [baseRate |-> 0, enablePremium |-> FALSE, politicalRisk |-> 0]]

NoBoostArgs == [years |-> <<>>, reform |-> [growthEffect |-> 0, lag |-> 0, duration |-> 0]]

NoPolicy == [revenueChange |-> 0, spendingChange |-> 0, growthEffect |-> 0]

NoOptions == [years |-> 0, enableRiskPremium |-> FALSE, politicalRiskPremium |-> 0,
              structuralReform |-> NoReform]

----------------------------------------------------------------------------
(* The calls *)

NoArgs == [years |-> 0, a |-> <<>>, b |-> <<>>, offsets |-> <<>>, calls |-> <<>>]

\* the arguments of one call of projectFiscalPath
CallSamples ==
    { c \in [ policyChanges : ScenarioSamples,
              options       : [ years                : {1, 2},
                                enableRiskPremium    : {TRUE},
                                politicalRiskPremium : {0},
                                structuralReform     : {NoReform,
                                                        <<STRUCTURAL_REFORMS.laborMarket>>} ] ] :
        c.options.years = 2
        \/ (c.policyChanges.revenueChange = 0) = (c.options.structuralReform = NoReform) }

MaxCalls == 3

UtilityEntries ==
    {"getBaselineProjection", "compareProjections", "assessDoomLoop", "validateProjection",
     "projections"}

InitRate ==
    /\ entry = "calculateInterestRate"
    /\ \E r1 \in RatioSamples, r2 \in RatioSamples, o \in RateOptions :
           rateArgs = [ratios |-> <<r1, r2>>, opts |-> o]
    /\ pc = "call"

InitBoost ==
    /\ entry = "calculateReformGrowthBoost"
    /\ \E y \in 0..MaxBoostYear, r \in ReformSamples :
           boostArgs = [years |-> <<y, y + 1>>, reform |-> r]
    /\ pc = "call"

InitProject ==
    /\ entry = "projectFiscalPath"
    /\ policyChanges \in PolicySamples
    /\ options \in OptionSamples
    /\ pc = "loop"

InitBaseline ==
    /\ entry = "getBaselineProjection"
    /\ \E years \in 0..MaxYears : args = [NoArgs EXCEPT !.years = years]
    /\ pc = "call"

InitCompare ==
    /\ entry = "compareProjections"
    /\ \E a \in ProjectionSamples, b \in ProjectionSamples, o \in OffsetSamples :
           args = [NoArgs EXCEPT !.a = a, !.b = b, !.offsets = o]
    /\ pc = "loop"

\* two calls of assessDoomLoop: on a projection of two snapshots, then on a
\* projection of up to MaxProjLen snapshots
InitAssess ==
    /\ entry = "assessDoomLoop"
    /\ \E a \in [1..2 -> AssessSnapshots], b \in SeqsUpTo(AssessSnapshots, MaxProjLen) :
           args = [NoArgs EXCEPT !.a = a, !.b = b]
    /\ pc = "call"

InitValidate ==
    /\ entry = "validateProjection"
    /\ \E s \in SeqsUpTo(ValidateSnapshots, MaxProjLen) \cup {<<>>} :
           args = [NoArgs EXCEPT !.a = Dated(s)]
    /\ pc = "loop"

\* several calls of projectFiscalPath one after the other, as the memo
\* projections makes them
InitProjections ==
    /\ entry = "projections"
    /\ \E c \in [1..MaxCalls -> CallSamples] : args = [NoArgs EXCEPT !.calls = c]
    /\ pc = "call"

InitBudgetSimulator ==
    /\ entry = "BudgetSimulator"
    /\ pc = "ui"

\* the first render of App, with every state at its useState value
InitApp ==
    /\ entry \in AppEntries
    /\ pc = "ui"

\* the first render of App v1.8: no reform, ten years
InitAppV18 ==
    /\ entry = "App-v1.8"
    /\ pc = "ui"

\* the state before the call: an entry point with its arguments; what the
\* entry point does not use is empty
Init ==
    /\ InitRate \/ InitBoost \/ InitProject \/ InitBaseline \/ InitCompare
       \/ InitAssess \/ InitValidate \/ InitProjections
       \/ InitBudgetSimulator \/ InitApp \/ InitAppV18
    /\ IF entry = "calculateInterestRate" THEN TRUE ELSE rateArgs = NoRateArgs
    /\ IF entry = "calculateReformGrowthBoost" THEN TRUE ELSE boostArgs = NoBoostArgs
    /\ IF entry = "projectFiscalPath"
       THEN TRUE
       ELSE policyChanges = NoPolicy /\ options = NoOptions
    /\ IF entry \in UtilityEntries THEN TRUE ELSE args = NoArgs
    /\ selectedReforms = <<>>
    /\ combinedReformEffect = <<>>
    /\ levers = InitialLevers
    /\ policyImpact = PolicyImpact(InitialLevers)
    /\ shown = NoSections
    /\ sliderMoves = 0
    /\ rateRes = <<>>
    /\ boostRes = <<>>
    /\ t = 0
    /\ gdp = MACRO_BASELINE.gdp
    /\ debt = MACRO_BASELINE.debt
    /\ results = <<>>
    /\ trace = <<>>
    /\ divisors = {}
    /\ idx = 1
    /\ comparisons = <<>>
    /\ assessments = <<>>
    /\ warnings = <<>>
    /\ validation = <<>>
    /\ returned = <<>>
    /\ selectedReform = "none"
    /\ projectionYears = 10
    /\ projections = IF entry = "App-v1.8" THEN ProjectionsV18("none", 10) ELSE NoProjections
    /\ chart = NoChart
    /\ isAdvancedMode = FALSE
    /\ taxRates = getDefaultTaxRates(FALSE)
    /\ spendingLevels = getDefaultSpendingLevels
    /\ budget = calculateBudget(getDefaultTaxRates(FALSE), getDefaultSpendingLevels, FALSE)

\* one call of calculateInterestRate, on the next debt ratio of rateArgs
CallInterestRate ==
    /\ entry = "calculateInterestRate"
    /\ pc = "call"
    /\ LET i == Len(rateRes) + 1
       IN  /\ rateRes' = Append(rateRes,
                                calculateInterestRate(rateArgs.ratios[i], rateArgs.opts))
           /\ pc' = IF i = Len(rateArgs.ratios) THEN "done" ELSE "call"
    /\ UNCHANGED <<entry, rateArgs, boostVars, projVars, divisors, utilVars, appVars,
                   sessionVars, budgetVars, v18Vars>>

\* one call of calculateReformGrowthBoost, on the next year of boostArgs
CallReformGrowthBoost ==
    /\ entry = "calculateReformGrowthBoost"
    /\ pc = "call"
    /\ LET i == Len(boostRes) + 1
       IN  /\ boostRes' = Append(boostRes,
                                 calculateReformGrowthBoost(boostArgs.years[i],
                                                            boostArgs.reform))
           /\ divisors' = divisors \cup
                          ReformBoostEval(boostArgs.years[i], boostArgs.reform).divisors
           /\ pc' = IF i = Len(boostArgs.years) THEN "done" ELSE "call"
    /\ UNCHANGED <<entry, rateVars, boostArgs, projVars, utilVars, appVars,
                   sessionVars, budgetVars, v18Vars>>

\* the entry points that run the loop of projectFiscalPath
InProjector == entry \in {"projectFiscalPath", "getBaselineProjection", "projections"}

\* FreshLocals with the stocks left by the previous call (as if gdp and debt
\* were module-level variables)
FreshLocalsCarried(g, d) == [gdp |-> g, debt |-> d]

\* let gdp = MACRO_BASELINE.gdp, let debt = MACRO_BASELINE.debt: the locals at
\* the start of a call, whatever values g and d an earlier call ended with
FreshLocals(g, d) == [gdp |-> MACRO_BASELINE.gdp, debt |-> MACRO_BASELINE.debt]

\* the memo projections calls projectFiscalPath with the next arguments
ProjectionsCall ==
    /\ entry = "projections"
    /\ pc = "call"
    /\ LET k == Len(returned) + 1
       IN  /\ policyChanges' = args.calls[k].policyChanges
           /\ options' = args.calls[k].options
    /\ gdp' = FreshLocals(gdp, debt).gdp
    /\ debt' = FreshLocals(gdp, debt).debt
    /\ t' = 0
    /\ results' = <<>>
    /\ trace' = <<>>
    /\ pc' = "loop"
    /\ UNCHANGED <<entry, rateVars, boostVars, divisors, utilVars, appVars,
                   sessionVars, budgetVars, v18Vars>>

\* the loop ends and the call returns results to the memo
ProjectionsReturn ==
    /\ entry = "projections"
    /\ pc = "loop"
    /\ ~LoopCondition(t, options.years)
    /\ returned' = Append(returned, results)
    /\ pc' = IF Len(returned) + 1 = Len(args.calls) THEN "done" ELSE "call"
    /\ UNCHANGED <<entry, rateVars, boostVars, projVars, divisors, utilVars, appVars,
                   budgetVars, v18Vars>>

\* getBaselineProjection calls projectFiscalPath
GetBaselineCall ==
    /\ entry = "getBaselineProjection"
    /\ pc = "call"
    /\ policyChanges' = BaselineCall(args.years).policyChanges
    /\ options' = BaselineCall(args.years).options
    /\ pc' = "loop"
    /\ UNCHANGED <<entry, rateVars, boostVars, t, gdp, debt, results, trace,
                   divisors, utilVars, appVars,
                   sessionVars, budgetVars, v18Vars>>

\* ProjectIterate with the stocks evolved before the snapshot is taken
ProjectIterateEvolveFirst ==
    /\ InProjector
    /\ pc = "loop"
    /\ LoopCondition(t, options.years)
    /\ LET loc   == YearLocals(t, gdp, debt, policyChanges, options)
           after == [loc EXCEPT !.gdp = EvolveGdp(gdp, loc),
                                !.debt = EvolveDebt(debt, loc),
                                !.debtRatio = Percent(EvolveDebt(debt, loc),
                                                      EvolveGdp(gdp, loc), 4)]
       IN  /\ results' = Append(results, Snapshot(t, after))
           /\ trace' = Append(trace, after)
           /\ gdp' = after.gdp
           /\ debt' = after.debt
    /\ divisors' = divisors \cup YearDivisors(t, gdp, options)
    /\ t' = t + 1
    /\ UNCHANGED <<entry, pc, rateVars, boostVars, policyChanges, options,
                   utilVars, appVars,
                   sessionVars, budgetVars, v18Vars>>

\* one iteration of the loop of projectFiscalPath
ProjectIterate ==
    /\ InProjector
    /\ pc = "loop"
    /\ LoopCondition(t, options.years)
    /\ LET loc == YearLocals(t, gdp, debt, policyChanges, options)
       IN  /\ results' = Append(results, Snapshot(t, loc))
           /\ trace' = Append(trace, loc)
           /\ gdp' = EvolveGdp(gdp, loc)
           /\ debt' = EvolveDebt(debt, loc)
    /\ divisors' = divisors \cup YearDivisors(t, gdp, options)
    /\ t' = t + 1
    /\ UNCHANGED <<entry, pc, rateVars, boostVars, policyChanges, options,
                   utilVars, appVars,
                   sessionVars, budgetVars, v18Vars>>

\* the loop of projectFiscalPath ends and the function returns results
ProjectReturn ==
    /\ InProjector
    /\ entry # "projections"
    /\ pc = "loop"
    /\ ~LoopCondition(t, options.years)
    /\ pc' = "done"
    /\ UNCHANGED <<entry, rateVars, boostVars, projVars, divisors, utilVars, appVars,
                   sessionVars, budgetVars, v18Vars>>

\* one iteration of the loop of compareProjections, on the next offset
CompareIterate ==
    /\ entry = "compareProjections"
    /\ pc = "loop"
    /\ idx <= Len(args.offsets)
    /\ LET offset == args.offsets[idx]
       IN  IF CompareSkips(offset, args.a, args.b)
           THEN /\ idx' = idx + 1
                /\ UNCHANGED <<pc, comparisons>>
           ELSE IF Undefined(args.a, offset) \/ Undefined(args.b, offset)
           THEN /\ pc' = "threw"
                /\ UNCHANGED <<idx, comparisons>>
           ELSE /\ comparisons' = Append(comparisons,
                                         CompareEntry(offset, args.a[offset + 1],
                                                      args.b[offset + 1]))
                /\ idx' = idx + 1
                /\ UNCHANGED pc
    /\ UNCHANGED <<entry, rateVars, boostVars, projVars, divisors, args,
                   assessments, warnings, validation, appVars,
                   sessionVars, budgetVars, v18Vars>>

\* the loop of compareProjections ends and the function returns comparisons
CompareReturn ==
    /\ entry = "compareProjections"
    /\ pc = "loop"
    /\ idx > Len(args.offsets)
    /\ pc' = "done"
    /\ UNCHANGED <<entry, rateVars, boostVars, projVars, divisors, utilVars, appVars,
                   sessionVars, budgetVars, v18Vars>>

\* one call of assessDoomLoop, on args.a and then on args.b
CallAssessDoomLoop ==
    /\ entry = "assessDoomLoop"
    /\ pc = "call"
    /\ LET i          == Len(assessments) + 1
           projection == IF i = 1 THEN args.a ELSE args.b
       IN  /\ assessments' = Append(assessments, assessDoomLoop(projection))
           /\ divisors' = divisors \cup AssessEval(projection).divisors
           /\ pc' = IF i = 2 THEN "done" ELSE "call"
    /\ UNCHANGED <<entry, rateVars, boostVars, projVars, args, idx, comparisons,
                   warnings, validation, appVars,
                   sessionVars, budgetVars, v18Vars>>

\* ValidateIterate walking the projection with projection.shift(), which
\* removes the first element from the caller's array
ValidateIterateShifting ==
    /\ entry = "validateProjection"
    /\ pc = "loop"
    /\ 1 < Len(args.a)
    /\ warnings' = warnings \o YearWarnings(args.a, 1)
    /\ divisors' = divisors \cup {args.a[1].gdp}
    /\ args' = [args EXCEPT !.a = Tail(@)]
    /\ UNCHANGED <<entry, pc, rateVars, boostVars, projVars, idx, comparisons,
                   assessments, validation, appVars, sessionVars, budgetVars, v18Vars>>

\* one iteration of the loop of validateProjection; idx is the source's i
ValidateIterate ==
    /\ entry = "validateProjection"
    /\ pc = "loop"
    /\ idx < Len(args.a)
    /\ warnings' = warnings \o YearWarnings(args.a, idx)
    /\ divisors' = divisors \cup {args.a[idx].gdp}
    /\ idx' = idx + 1
    /\ UNCHANGED <<entry, pc, rateVars, boostVars, projVars, args, comparisons,
                   assessments, validation, appVars,
                   sessionVars, budgetVars, v18Vars>>

\* the loop of validateProjection ends and the function returns
ValidateReturn ==
    /\ entry = "validateProjection"
    /\ pc = "loop"
    /\ ~(idx < Len(args.a))
    /\ validation' = <<ValidationResult(warnings)>>
    /\ pc' = "done"
    /\ UNCHANGED <<entry, rateVars, boostVars, projVars, divisors, args, idx,
                   comparisons, assessments, warnings, appVars,
                   sessionVars, budgetVars, v18Vars>>

\* App: the memos doomLoopAssessment and validation of the projection
\* returned by projectFiscalPath
AssessProjection ==
    /\ entry = "projectFiscalPath"
    /\ pc = "done"
    /\ assessments' = <<assessDoomLoop(results)>>
    /\ validation' = <<validateProjection(results)>>
    /\ shown' = Sections(assessDoomLoop(results), validateProjection(results))
    /\ divisors' = divisors \cup AssessEval(results).divisors
                             \cup ValidateDivisors(results)
    /\ pc' = "assessed"
    /\ UNCHANGED <<entry, rateVars, boostVars, projVars, args, idx, comparisons,
                   warnings, selectedReforms, combinedReformEffect, levers,
                   policyImpact, sliderMoves, sessionVars, budgetVars, v18Vars>>

\* what the handlers of App that do not throw leave alone besides the states
\* and memos of App
NotAppVars ==
    <<entry, pc, rateVars, boostVars, projVars, divisors, utilVars, sessionVars,
      budgetVars, v18Vars>>

\* a reform checkbox is clicked: toggleReform, then the memo is recomputed
\* for the new selection
ToggleReform ==
    /\ entry = "App"
    /\ pc = "ui"
    /\ \E reformKey \in ReformKeys :
           LET sel == ToggledSelection(selectedReforms, reformKey)
           IN  /\ Len(sel) <= MaxSelected
               /\ selectedReforms' = sel
               /\ combinedReformEffect' = CombineReforms(sel)
    /\ UNCHANGED <<levers, policyImpact, shown, sliderMoves, NotAppVars>>

\* a preset button is clicked: applyPreset sets the ten levers and the
\* selection, then the memos policyImpact and combinedReformEffect are
\* recomputed; a memo that throws ends the render and the component is gone
ApplyPreset ==
    /\ entry \in AppEntries
    /\ pc = "ui"
    /\ \E presetKey \in DOMAIN PRESETS :
           LET preset == PRESETS[presetKey]
           IN  /\ levers' = preset.levers
               /\ policyImpact' = PolicyImpact(preset.levers)
               /\ selectedReforms' = preset.reforms
               /\ IF MemoThrows(preset.reforms)
                  THEN pc' = "threw" /\ UNCHANGED combinedReformEffect
                  ELSE /\ pc' = "ui"
                       /\ combinedReformEffect' = CombineReforms(preset.reforms)
    /\ UNCHANGED <<entry, shown, sliderMoves, rateVars, boostVars, projVars, divisors,
                   utilVars, sessionVars, budgetVars, v18Vars>>

\* the slider of a lever is moved to one of its ends: onChange(parseFloat(...))
\* calls the setter of that lever, then the memo policyImpact is recomputed
SetLever ==
    /\ entry = "AppSliders"
    /\ pc = "ui"
    /\ sliderMoves < MaxSliderMoves
    /\ \E l \in LeverIds :
           \E v \in {Sliders[l].min, Sliders[l].max} :
               /\ levers' = [levers EXCEPT ![l] = v]
               /\ policyImpact' = PolicyImpact([levers EXCEPT ![l] = v])
    /\ sliderMoves' = sliderMoves + 1
    /\ UNCHANGED <<selectedReforms, combinedReformEffect, shown, NotAppVars>>

\* what every handler of BudgetSimulator leaves alone
NotBudgetVars ==
    <<entry, pc, rateVars, boostVars, projVars, divisors, utilVars, appVars, sessionVars,
      v18Vars>>

\* a mode button is clicked: handleModeChange, then the memo budget
HandleModeChange ==
    /\ entry = "BudgetSimulator"
    /\ \E advanced \in BOOLEAN :
           /\ isAdvancedMode' = advanced
           /\ taxRates' = getDefaultTaxRates(advanced)
           /\ budget' = calculateBudget(getDefaultTaxRates(advanced), spendingLevels,
                                        advanced)
    /\ UNCHANGED <<spendingLevels, NotBudgetVars>>

\* a displayed tax slider is moved: handleTaxChange, then the memo budget
HandleTaxChange ==
    /\ entry = "BudgetSimulator"
    /\ \E taxId \in taxesToDisplay(isAdvancedMode) :
           \E newRate \in TaxSliderSamples(taxId) :
               /\ taxRates' = Spread(taxRates, taxId, newRate)
               /\ budget' = calculateBudget(Spread(taxRates, taxId, newRate),
                                            spendingLevels, isAdvancedMode)
    /\ UNCHANGED <<isAdvancedMode, spendingLevels, NotBudgetVars>>

\* a spending slider is moved: handleSpendingChange, then the memo budget
HandleSpendingChange ==
    /\ entry = "BudgetSimulator"
    /\ \E spendingId \in DOMAIN spendingConfig :
           \E newAmount \in SpendingSliderSamples(spendingId) :
               /\ spendingLevels' = Spread(spendingLevels, spendingId, newAmount)
               /\ budget' = calculateBudget(taxRates,
                                            Spread(spendingLevels, spendingId, newAmount),
                                            isAdvancedMode)
    /\ UNCHANGED <<isAdvancedMode, taxRates, NotBudgetVars>>

\* the reset button is clicked: handleReset, then the memo budget
HandleReset ==
    /\ entry = "BudgetSimulator"
    /\ taxRates' = getDefaultTaxRates(isAdvancedMode)
    /\ spendingLevels' = getDefaultSpendingLevels
    /\ budget' = calculateBudget(getDefaultTaxRates(isAdvancedMode),
                                 getDefaultSpendingLevels, isAdvancedMode)
    /\ UNCHANGED <<isAdvancedMode, NotBudgetVars>>

\* what the handlers of App v1.8 leave alone
NotV18Vars ==
    <<entry, rateVars, boostVars, projVars, divisors, utilVars, appVars, sessionVars,
      budgetVars>>

\* the render of App v1.8 after a state change: the memo projections, then
\* the reform-impact section when a reform is selected; a render that throws
\* leaves the component gone
RenderV18(reformKey, years) ==
    LET p == ProjectionsV18(reformKey, years)
    IN  /\ projections' = p
        /\ IF reformKey = "none"
           THEN pc' = "ui" /\ chart' = NoChart
           ELSE IF ChartThrows(p, years)
           THEN pc' = "threw" /\ UNCHANGED chart
           ELSE pc' = "ui" /\ chart' = ChartData(p)

\* an option of the reform selector is chosen: setSelectedReform
SetSelectedReform ==
    /\ entry = "App-v1.8"
    /\ pc = "ui"
    /\ \E reformKey \in ReformOptions :
           /\ selectedReform' = reformKey
           /\ RenderV18(reformKey, projectionYears)
    /\ UNCHANGED <<projectionYears, NotV18Vars>>

\* a horizon button is clicked: setProjectionYears
SetProjectionYears ==
    /\ entry = "App-v1.8"
    /\ pc = "ui"
    /\ \E y \in HorizonButtons :
           /\ projectionYears' = y
           /\ RenderV18(selectedReform, y)
    /\ UNCHANGED <<selectedReform, NotV18Vars>>

Next ==
    \/ CallInterestRate
    \/ CallReformGrowthBoost
    \/ ProjectIterate
    \/ ProjectReturn
    \/ GetBaselineCall
    \/ ProjectionsCall
    \/ ProjectionsReturn
    \/ CompareIterate
    \/ CompareReturn
    \/ CallAssessDoomLoop
    \/ ValidateIterate
    \/ ValidateReturn
    \/ AssessProjection
    \/ ToggleReform
    \/ ApplyPreset
    \/ SetLever
    \/ SetSelectedReform
    \/ SetProjectionYears
    \/ HandleModeChange
    \/ HandleTaxChange
    \/ HandleSpendingChange
    \/ HandleReset

Spec == Init /\ [][Next]_vars


----------------------------------------------------------------------------
(* Properties of projectFiscalPath *)

Projecting == entry = "projectFiscalPath"

\* the pairs of consecutive years computed so far
YearPairs == 1..(Len(trace) - 1)

\* C1: debt accumulation identity.  For every pair of consecutive years the
\* unrounded debt stock of the later year is the unrounded debt stock of the
\* earlier year plus the unrounded adjusted deficit of the earlier year.
C1_DebtAccumulation ==
    Projecting =>
        \A n \in YearPairs :
            trace[n + 1].debt = trace[n].debt + trace[n].adjustedDeficit

\* a run with a policy, a growth feedback and at least three years
C1_Witness ==
    /\ Projecting
    /\ Len(trace) >= 3
    /\ policyChanges.revenueChange # 0
    /\ trace[1].growthFeedback # 0
    /\ trace[3].debt # trace[2].debt

\* C2 as stated: the GDP of the later year is the GDP of the earlier year
\* times (1 + nominalGrowthRate / 100), nominalGrowthRate being the field
\* emitted in the earlier snapshot (GDP read before display rounding).
C2_Original ==
    Projecting =>
        \A n \in YearPairs :
            trace[n + 1].gdp =
                trace[n].gdp + MulRate(trace[n].gdp, results[n].nominalGrowthRate * 10000)

\* C2 amended: the unrounded GDP of the later year is the unrounded GDP of
\* the earlier year times (1 + the unrounded nominal growth of the earlier
\* year); the emitted nominalGrowthRate is that growth rounded to 0.01 pp,
\* so it lies within 0.005 pp of the rate the GDP actually grew by.
C2_GdpGrowth ==
    Projecting =>
        \A n \in YearPairs :
            /\ trace[n + 1].gdp = trace[n].gdp + MulRate(trace[n].gdp, trace[n].nominalGrowth)
            /\ results[n].nominalGrowthRate * 10000 - trace[n].nominalGrowth \in -4999..5000

\* two years computed, the first with a growth rate that is not a multiple
\* of 0.01 pp
C2_Witness ==
    /\ Projecting
    /\ Len(trace) >= 2
    /\ results[1].nominalGrowthRate * 10000 # trace[1].nominalGrowth
    /\ trace[2].gdp > trace[1].gdp

\* C3: for every horizon h >= 0 the call terminates after exactly h + 1
\* iterations with h + 1 snapshots in order, snapshot number i (from 0)
\* labelled MACRO_BASELINE.year + i; index h is a valid index of the result.
\* Termination is stated through the loop's measure: every iteration adds
\* one to the counter and one snapshot, the counter never passes h + 1, and
\* the call returns exactly when the counter is h + 1.
C3_Terminates ==
    Projecting =>
        /\ t = Len(results)
        /\ t <= options.years + 1
        /\ \A i \in 1..Len(results) : results[i].year = MACRO_BASELINE.year + (i - 1)
        /\ pc = "done" =>
               /\ t = options.years + 1
               /\ Len(results) = options.years + 1
               /\ options.years + 1 \in DOMAIN results

\* a call with the longest horizon has returned
C3_Witness ==
    /\ Projecting
    /\ pc = "done"
    /\ options.years = MaxYears
    /\ Len(results) = MaxYears + 1
    /\ results[MaxYears + 1].year = MACRO_BASELINE.year + MaxYears

\* the configuration of the pure baseline run
BaselineRun ==
    /\ policyChanges = NoPolicy
    /\ options.structuralReform = NoReform
    /\ options.enableRiskPremium
    /\ options.politicalRiskPremium = 0

\* C4 as stated: the snapshot of year 0 reports the baseline GDP and debt
\* unmodified, and in the pure baseline run its debtRatio equals
\* MACRO_BASELINE.debt / MACRO_BASELINE.gdp * 100.
C4_Original ==
    (Projecting /\ Len(results) >= 1) =>
        /\ results[1].gdp * 100 = MACRO_BASELINE.gdp
        /\ results[1].debt * 100 = MACRO_BASELINE.debt
        /\ BaselineRun =>
               results[1].debtRatio * 1000
                   = Percent(MACRO_BASELINE.debt, MACRO_BASELINE.gdp, 4)

\* C4 amended: the stocks are evolved only after the snapshot is emitted, so
\* the snapshot of year 0 reports the baseline GDP and debt unmodified and
\* the debt ratio computed in year 0 is MACRO_BASELINE.debt /
\* MACRO_BASELINE.gdp * 100; the debtRatio field of the snapshot is that
\* ratio rounded to one decimal, 115.8.
C4_SnapshotBeforeEvolve ==
    (Projecting /\ Len(results) >= 1) =>
        /\ results[1].gdp * 100 = MACRO_BASELINE.gdp
        /\ results[1].debt * 100 = MACRO_BASELINE.debt
        /\ trace[1].gdp = MACRO_BASELINE.gdp
        /\ trace[1].debt = MACRO_BASELINE.debt
        /\ BaselineRun =>
               /\ trace[1].debtRatio = Percent(MACRO_BASELINE.debt, MACRO_BASELINE.gdp, 4)
               /\ results[1].debtRatio
                      = MathRound(Percent(MACRO_BASELINE.debt, MACRO_BASELINE.gdp, 4), 1000)
               /\ results[1].debtRatio * 1000 = MACRO_BASELINE.debtToGdp

\* the pure baseline run has emitted year 0 and evolved the stocks
C4_Witness ==
    /\ Projecting
    /\ BaselineRun
    /\ Len(results) >= 1
    /\ gdp # MACRO_BASELINE.gdp
    /\ debt # MACRO_BASELINE.debt

----------------------------------------------------------------------------
(* Properties of calculateInterestRate *)

RateCalls == entry = "calculateInterestRate"

\* the four-regime reference curve, thresholds in 0.0001 pp and slopes in
\* 0.00000001 per 0.0001 pp: 60, 90, 120 and 0.0003, 0.0004, 0.0010 per pp
ReferencePremium(ratio) ==
    CASE ratio <= 600000                     -> 0
      [] ratio > 600000 /\ ratio <= 900000   -> (ratio - 600000) * 3
      [] ratio > 900000 /\ ratio <= 1200000  -> 300000 * 3 + (ratio - 900000) * 4
      [] ratio > 1200000
             -> 300000 * 3 + 300000 * 4 + (ratio - 1200000) * 10

\* C5: with the premium enabled calculateInterestRate is baseRate + the
\* four-regime reference premium + politicalRisk for every debt ratio,
\* negative and very large ones included; with the baseline parameters a
\* ratio of 115.8 gives premium 0.01932 and rate 0.05132.
C5_ReferenceCurve ==
    (RateCalls /\ rateArgs.opts.enablePremium) =>
        \A i \in 1..Len(rateRes) :
            /\ rateRes[i] = rateArgs.opts.baseRate
                               + ReferencePremium(rateArgs.ratios[i])
                               + rateArgs.opts.politicalRisk
            /\ ( /\ rateArgs.ratios[i] = 1158000
                 /\ rateArgs.opts.baseRate = 3200000
                 /\ rateArgs.opts.politicalRisk = 0 )
                   => /\ rateRes[i] - rateArgs.opts.baseRate = 1932000
                      /\ rateRes[i] = 5132000

\* the rate at 115.8 % and at a ratio of regime 4 have been returned
C5_Witness ==
    /\ RateCalls
    /\ pc = "done"
    /\ rateArgs.opts.enablePremium
    /\ rateArgs.opts.baseRate = MACRO_BASELINE.baseInterestRate
    /\ rateArgs.opts.politicalRisk = 0
    /\ rateArgs.ratios = <<1158000, 100000000>>
    /\ rateRes[1] = 5132000

\* the formula of the regime that starts above threshold th
UpperRegimePremium(th) ==
    CASE th = MACRO_BASELINE.riskPremium.threshold1 -> Regime2Premium(th)
      [] th = MACRO_BASELINE.riskPremium.threshold2 -> Regime3Premium(th)
      [] th = MACRO_BASELINE.riskPremium.threshold3 -> Regime4Premium(th)

Thresholds ==
    { MACRO_BASELINE.riskPremium.threshold1,
      MACRO_BASELINE.riskPremium.threshold2,
      MACRO_BASELINE.riskPremium.threshold3 }

\* C6: with the premium enabled the rate is continuous at 60, 90 and 120:
\* the value returned at a threshold (the lower regime's formula) is the
\* value of the upper regime's formula at excess 0, and the rate of a ratio
\* one grid step above the threshold differs from the rate at the threshold
\* by no more than one step of the steepest slope.
C6_Continuous ==
    (RateCalls /\ rateArgs.opts.enablePremium) =>
        /\ \A i \in 1..Len(rateRes) :
               rateArgs.ratios[i] \in Thresholds =>
                   rateRes[i] = rateArgs.opts.baseRate
                                    + UpperRegimePremium(rateArgs.ratios[i])
                                    + rateArgs.opts.politicalRisk
        /\ ( /\ Len(rateRes) = 2
             /\ rateArgs.ratios[1] \in Thresholds
             /\ rateArgs.ratios[2] = rateArgs.ratios[1] + 1 )
               => Abs(rateRes[2] - rateRes[1]) <= MACRO_BASELINE.riskPremium.slope3

\* the rates at a threshold and one grid step above it have been returned
C6_Witness ==
    /\ RateCalls
    /\ pc = "done"
    /\ rateArgs.opts.enablePremium
    /\ rateArgs.ratios[1] = MACRO_BASELINE.riskPremium.threshold3
    /\ rateArgs.ratios[2] = MACRO_BASELINE.riskPremium.threshold3 + 1
    /\ rateRes[2] > rateRes[1]

\* C7: for fixed baseRate, politicalRisk and premium toggle the rate is
\* monotonically non-decreasing in the debt ratio.
C7_Monotone ==
    (RateCalls /\ Len(rateRes) = 2) =>
        /\ rateArgs.ratios[1] <= rateArgs.ratios[2] => rateRes[1] <= rateRes[2]
        /\ rateArgs.ratios[1] >= rateArgs.ratios[2] => rateRes[1] >= rateRes[2]

\* two ratios in different regimes, the larger with the strictly larger rate
C7_Witness ==
    /\ RateCalls
    /\ pc = "done"
    /\ rateArgs.opts.enablePremium
    /\ rateArgs.ratios[1] = 750000
    /\ rateArgs.ratios[2] = 1200001
    /\ rateRes[1] < rateRes[2]

\* C8: with enablePremium false calculateInterestRate returns exactly
\* baseRate + politicalRisk for every debt ratio, so a projection with
\* enableRiskPremium false uses the same effective rate in every year
\* whatever the debt path.
C8_PremiumBypassed ==
    /\ (RateCalls /\ ~rateArgs.opts.enablePremium) =>
           \A i \in 1..Len(rateRes) :
               rateRes[i] = rateArgs.opts.baseRate + rateArgs.opts.politicalRisk
    /\ (Projecting /\ ~options.enableRiskPremium) =>
           \A n \in 1..Len(trace) :
               /\ trace[n].effectiveRate
                      = MACRO_BASELINE.baseInterestRate + options.politicalRiskPremium
               /\ results[n].effectiveInterestRate = results[1].effectiveInterestRate
               /\ results[n].riskPremiumBps = results[1].riskPremiumBps

\* a projection without the premium whose debt ratio has moved across the
\* threshold of regime 4
C8_Witness ==
    /\ Projecting
    /\ ~options.enableRiskPremium
    /\ Len(trace) >= 3
    /\ trace[1].debtRatio <= MACRO_BASELINE.riskPremium.threshold3
    /\ trace[Len(trace)].debtRatio > MACRO_BASELINE.riskPremium.threshold3

----------------------------------------------------------------------------
(* Properties of calculateReformGrowthBoost *)

BoostCalls == entry = "calculateReformGrowthBoost"

\* the three-phase reference of a reform with effect E, lag L > 0 and
\* duration D in year y; the decay factor is 0.93
ReferenceBoost(y, E, L, D) ==
    CASE y >= 0 /\ y < L      -> DivTrunc(E * y, L)
      [] y >= L /\ y < L + D  -> E
      [] y >= L + D           -> MulRate(E, MathPow(93000000, y - L - D))

\* C9: for every year t >= 0 and every reform with lag L > 0, duration
\* D >= 0 and effect E the boost is E * t / L for t < L (0 at t = 0),
\* exactly E for L <= t < L + D (at t = L in particular when D > 0) and
\* E * 0.93^(t - L - D) from t = L + D on; the reform {0.0015, 2, 10} gives
\* 0.00075 at t = 1, 0.0015 at t = 5 and 0.001395 at t = 13.
C9_ThreePhases ==
    (BoostCalls /\ boostArgs.reform.lag > 0) =>
        \A i \in 1..Len(boostRes) :
            LET y == boostArgs.years[i]
                E == boostArgs.reform.growthEffect
                L == boostArgs.reform.lag
                D == boostArgs.reform.duration
            IN  /\ boostRes[i] = ReferenceBoost(y, E, L, D)
                /\ y = 0 => boostRes[i] = 0
                /\ (y = L /\ D > 0) => boostRes[i] = E
                /\ (E = 150000 /\ L = 2 /\ D = 10) =>
                       /\ y = 1  => boostRes[i] = 75000
                       /\ y = 5  => boostRes[i] = 150000
                       /\ y = 13 => boostRes[i] = 139500

\* the boost of the reform {0.0015, 2, 10} in year 13 has been returned
C9_Witness ==
    /\ BoostCalls
    /\ pc = "done"
    /\ boostArgs.reform = [growthEffect |-> 150000, lag |-> 2, duration |-> 10]
    /\ boostArgs.years[1] = 13
    /\ boostRes[1] = 139500

NoLagCalls ==
    IF entry = "calculateReformGrowthBoost" /\ boostArgs.reform.lag = 0
    THEN 1..Len(boostRes)
    ELSE {}

\* C11: with lag = 0 there is no phase-in: no division is evaluated (so t / lag
\* never is), the boost is growthEffect for 0 <= t < duration and
\* growthEffect * 0.93^(t - duration) afterwards
C11_NoPhaseIn ==
    /\ NoLagCalls # {} => divisors = {}
    /\ \A i \in NoLagCalls :
           LET year == boostArgs.years[i]
               E    == boostArgs.reform.growthEffect
               D    == boostArgs.reform.duration
           IN  /\ year < D => boostRes[i] = E
               /\ year >= D => boostRes[i] = MulRate(E, MathPow(93000000, year - D))

C11_Witness ==
    /\ entry = "calculateReformGrowthBoost"
    /\ boostArgs.reform.lag = 0
    /\ boostArgs.reform.duration = 1
    /\ boostArgs.years = <<0, 1>>
    /\ Len(boostRes) = 2
    /\ boostRes[1] = boostArgs.reform.growthEffect
    /\ boostRes[2] = boostArgs.reform.growthEffect

----------------------------------------------------------------------------
(* Properties of the combined reform *)

InApp == entry = "App"

\* every selected key is a key of the catalog
CatalogSelection ==
    \A i \in 1..Len(selectedReforms) : selectedReforms[i] \in ReformKeys

SelectedSpecs == { STRUCTURAL_REFORMS[selectedReforms[i]] : i \in 1..Len(selectedReforms) }

RECURSIVE SumOfEffects(_)
\* the sum of the growth effects of a set of distinct catalog keys
SumOfEffects(keys) ==
    IF keys = {}
    THEN 0
    ELSE LET k == CHOOSE x \in keys : TRUE
         IN  STRUCTURAL_REFORMS[k].growthEffect + SumOfEffects(keys \ {k})

\* C12: with two or more catalog reforms selected the combined reform has
\* growthEffect = (sum of the growth effects) * 0.85, lag = the smallest lag and
\* duration = the largest duration; 0.0015 and 0.0010 combine to 0.002125
C12_CombinedReform ==
    (InApp /\ Len(selectedReforms) >= 2 /\ CatalogSelection) =>
        /\ Len(combinedReformEffect) = 1
        /\ LET c    == combinedReformEffect[1]
               keys == { selectedReforms[i] : i \in 1..Len(selectedReforms) }
           IN  /\ 100 * c.growthEffect = 85 * SumOfEffects(keys)
               /\ \E r \in SelectedSpecs : c.lag = r.lag
               /\ \A r \in SelectedSpecs : c.lag <= r.lag
               /\ \E r \in SelectedSpecs : c.duration = r.duration
               /\ \A r \in SelectedSpecs : c.duration >= r.duration
               /\ selectedReforms = <<"laborMarket", "productMarketRegulation">>
                      => c.growthEffect = 212500

C12_Witness ==
    /\ InApp
    /\ selectedReforms = <<"education", "planning", "productMarketRegulation">>
    /\ combinedReformEffect = << [count |-> 3, growthEffect |-> 280500,
                                  lag |-> 2, duration |-> 20] >>

\* C13: with exactly one reform selected the combined reform has the growth
\* effect of that catalog reform, without the 0.85 factor
C13_SingleNoPenalty ==
    (InApp /\ Len(selectedReforms) = 1) =>
        /\ Len(combinedReformEffect) = 1
        /\ combinedReformEffect[1].growthEffect
               = STRUCTURAL_REFORMS[selectedReforms[1]].growthEffect

----------------------------------------------------------------------------
(* Properties of getBaselineProjection *)

BaselineCalled == entry = "getBaselineProjection" /\ pc # "call"

\* C14: getBaselineProjection(years) returns what projectFiscalPath returns for
\* the policy impact {0, 0, 0}, the horizon years, the risk premium enabled, no
\* political risk and no reform; every snapshot has the baseline nominal
\* growth, the baseline primary deficit and deficit = primary deficit + interest
C14_Baseline ==
    BaselineCalled =>
        /\ pc = "done" =>
               results = projectFiscalPath(
                             [revenueChange |-> 0, spendingChange |-> 0, growthEffect |-> 0],
                             [ years                |-> args.years,
                               enableRiskPremium    |-> TRUE,
                               politicalRiskPremium |-> 0,
                               structuralReform     |-> <<>> ])
        /\ pc = "done" => Len(results) = args.years + 1
        /\ \A n \in 1..Len(results) :
               /\ trace[n].nominalGrowth = MACRO_BASELINE.nominalGrowth
               /\ trace[n].primaryDeficit = MACRO_BASELINE.primaryDeficit
               /\ trace[n].adjustedDeficit = trace[n].primaryDeficit + trace[n].interest
               /\ results[n].nominalGrowthRate = 290
               /\ results[n].primaryDeficit = 840
               /\ results[n].deficit = results[n].primaryDeficit + results[n].interest

C14_Witness ==
    /\ entry = "getBaselineProjection"
    /\ pc = "done"
    /\ args.years = 3
    /\ Len(results) = 4
    /\ results[4].year = 2028
    /\ results[4].riskPremiumBps > 0

----------------------------------------------------------------------------
(* Properties of compareProjections *)

Comparing == entry = "compareProjections"

\* the offsets handled so far
OffsetsDone == SubSeq(args.offsets, 1, idx - 1)

InBoth(offset) == offset < Len(args.a) /\ offset < Len(args.b)

\* C15: compareProjections never fails on an offset >= the length of either
\* projection: such an offset is skipped, and the result has exactly one
\* entry, in request order, for each requested offset smaller than both
\* lengths
C15_OffsetsSkipped ==
    Comparing =>
        /\ pc # "threw"
        /\ [i \in 1..Len(comparisons) |-> comparisons[i].yearOffset]
               = SelectSeq(OffsetsDone, InBoth)
        /\ pc = "done" => OffsetsDone = args.offsets
        /\ (pc = "done" /\ \A i \in 1..Len(args.offsets) : ~InBoth(args.offsets[i]))
               => comparisons = <<>>

C15_Witness ==
    /\ Comparing
    /\ pc = "done"
    /\ args.offsets = <<1, 2, 5, 10>>
    /\ Len(args.a) = 3
    /\ Len(args.b) = MaxYears + 1
    /\ Len(comparisons) = 2
    /\ comparisons[1].yearOffset = 1
    /\ comparisons[2].yearOffset = 2

\* C16: each entry carries yearOffset = offset, year = A[offset].year and the
\* differences A - B of debtRatio, deficitRatio and interest at that index, to
\* one decimal; comparing a projection with itself gives only zeros
C16_SignedDifferences ==
    Comparing =>
        \A i \in 1..Len(comparisons) :
            LET c == comparisons[i]
                o == SelectSeq(OffsetsDone, InBoth)[i]
                a == args.a[o + 1]
                b == args.b[o + 1]
            IN  /\ c.yearOffset = o
                /\ c.year = a.year
                /\ c.debtRatioDiff = a.debtRatio - b.debtRatio
                /\ c.deficitRatioDiff = a.deficitRatio - b.deficitRatio
                /\ c.interestDiff = a.interest - b.interest
                /\ args.a = args.b =>
                       /\ c.debtRatioDiff = 0
                       /\ c.deficitRatioDiff = 0
                       /\ c.interestDiff = 0

C16_Witness ==
    /\ Comparing
    /\ pc = "done"
    /\ args.offsets = <<2, 0, 2>>
    /\ Len(comparisons) = 3
    /\ comparisons[1].year = 2027
    /\ comparisons[2].year = 2025
    /\ comparisons[1].debtRatioDiff < 0
    /\ comparisons[1].deficitRatioDiff < 0
    /\ comparisons[1].interestDiff < 0
    /\ comparisons[2].debtRatioDiff = 0

----------------------------------------------------------------------------
(* Properties of assessDoomLoop *)

Assessing == entry = "assessDoomLoop"

\* the projection of the i-th call
Assessed(i) == IF i = 1 THEN args.a ELSE args.b

First(projection) == projection[1]

Last(projection) == projection[Len(projection)]

\* C17: two non-empty projections with the same first and the same last
\* snapshot get the same assessment, whatever lies in between
C17_EndpointsOnly ==
    (/\ Assessing
     /\ Len(assessments) = 2
     /\ First(args.a) = First(args.b)
     /\ Last(args.a) = Last(args.b)) => assessments[1] = assessments[2]

C17_Witness ==
    /\ Assessing
    /\ Len(assessments) = 2
    /\ Len(args.b) = 3
    /\ First(args.a) = First(args.b)
    /\ Last(args.a) = Last(args.b)
    /\ args.b[2] # args.b[1]
    /\ args.b[2] # args.b[3]
    /\ args.b[2].deficitRatio = 0
    /\ assessments[1] = assessments[2]
    /\ assessments[2].severity = "medium"

\* C18: with severity = (last.interestRatio - first.interestRatio) /
\* |last.deficitRatio| (interest ratios in hundredths of a point, deficit
\* ratio in tenths), the label is "high" when severity > 0.3, "medium" when
\* 0.15 < severity <= 0.3 and "low" otherwise; doomLoopActive holds exactly
\* when last.riskPremiumBps - first.riskPremiumBps > 20.  For a deficit ratio
\* of 0 the quotient is the one of doubles: Infinity ("high") for a positive
\* numerator, -Infinity or NaN ("low") otherwise
C18_Classification ==
    Assessing =>
        \A i \in 1..Len(assessments) :
            LET first == First(Assessed(i))
                last  == Last(Assessed(i))
                num   == last.interestRatio - first.interestRatio
                den   == IF last.deficitRatio < 0 THEN -last.deficitRatio
                         ELSE last.deficitRatio
                r     == assessments[i]
            IN  /\ den > 0 =>
                       /\ r.severity = "high" <=> 100 * num > 30 * (10 * den)
                       /\ r.severity = "medium" <=> /\ 100 * num > 15 * (10 * den)
                                                    /\ 100 * num <= 30 * (10 * den)
                       /\ r.severity = "low" <=> 100 * num <= 15 * (10 * den)
                /\ den = 0 =>
                       /\ r.severity = "high" <=> num > 0
                       /\ r.severity = "low" <=> num <= 0
                /\ r.doomLoopActive <=> last.riskPremiumBps - first.riskPremiumBps > 20

C18_Witness ==
    /\ Assessing
    /\ Len(assessments) = 2
    /\ assessments[1].premiumIncreaseBps = 20
    /\ ~assessments[1].doomLoopActive
    /\ assessments[1].severity = "low"
    /\ assessments[2].premiumIncreaseBps = 21
    /\ assessments[2].doomLoopActive
    /\ assessments[2].severity = "high"

----------------------------------------------------------------------------
(* Properties of validateProjection *)

Validating == entry = "validateProjection"

\* the red flags of the snapshot at the source's index i >= 1
Flags(i) ==
    LET year == args.a[i + 1]
        prev == args.a[i]
    IN  (IF year.debtRatio > 2000 THEN {"debt"} ELSE {})
        \cup (IF year.effectiveInterestRate > 1000 THEN {"rate"} ELSE {})
        \cup (IF 100 * year.gdp < 95 * prev.gdp THEN {"gdp"} ELSE {})

WarningKeys == { <<warnings[j].kind, warnings[j].year>> : j \in 1..Len(warnings) }

\* C19: validateProjection pushes one warning for each snapshot of index >= 1
\* and each flag that holds there (debtRatio > 200, effectiveInterestRate > 10,
\* GDP more than 5% below the previous snapshot's) and no other; the first
\* snapshot gives none; the result is valid exactly when there is no warning;
\* the function always returns
C19_Warnings ==
    Validating =>
        /\ pc \in {"loop", "done"}
        /\ WarningKeys = UNION { { <<k, args.a[i + 1].year>> : k \in Flags(i) }
                                    : i \in 1..(idx - 1) }
        /\ Cardinality(WarningKeys) = Len(warnings)
        /\ \A j \in 1..Len(warnings) : warnings[j].year # args.a[1].year
        /\ pc = "done" =>
               /\ idx >= Len(args.a)
               /\ validation[1].warnings = warnings
               /\ validation[1].valid <=> validation[1].warnings = <<>>

C19_Witness ==
    /\ Validating
    /\ pc = "done"
    /\ Len(args.a) = 3
    /\ args.a[1].debtRatio = 2001
    /\ args.a[1].effectiveInterestRate = 1001
    /\ args.a[2].debtRatio < 2000
    /\ args.a[3].gdp = 27070
    /\ args.a[2].gdp = 28500
    /\ ~validation[1].valid
    /\ Len(warnings) = 3
    /\ warnings[3].kind = "gdp"
    /\ warnings[3].value = -50

----------------------------------------------------------------------------
(* Totality *)

\* C20: no call of a core function divides by zero (the lag = 0 case of the
\* reform model being guarded); in particular assessDoomLoop does not, on any
\* projection projectFiscalPath returns
C20_NoZeroDivisor == 0 \notin divisors

----------------------------------------------------------------------------
(* Purity *)

InProjections == entry = "projections"

\* C21: projectFiscalPath is a function of its arguments: two calls with the
\* same policyImpact and config return the same projection, whatever calls
\* were made before or between them; each call returns what a first call
\* with its arguments returns
C21_Pure ==
    InProjections =>
        /\ \A i \in 1..Len(returned), j \in 1..Len(returned) :
               args.calls[i] = args.calls[j] => returned[i] = returned[j]
        /\ \A i \in 1..Len(returned) :
               /\ returned[i][1].gdp = 28500
               /\ returned[i][1].debt = 33000
               /\ Len(returned[i]) = args.calls[i].options.years + 1

C21_Witness ==
    /\ InProjections
    /\ pc = "done"
    /\ Len(returned) = 3
    /\ args.calls[1] = args.calls[3]
    /\ args.calls[2] # args.calls[1]
    /\ args.calls[2].options.structuralReform # <<>>
    /\ returned[2] # returned[1]
    /\ returned[1] = returned[3]

\* C22: no step of a core operation changes data the caller owns: the
\* arguments of the call (policyImpact, config and the reform in it, the
\* projections and offsets passed in) and every projection already returned
\* stay as they are.  MACRO_BASELINE and STRUCTURAL_REFORMS are constants
C22_NoMutation ==
    [][ /\ args' = args
        /\ entry = "projectFiscalPath" =>
               /\ policyChanges' = policyChanges
               /\ options' = options
        /\ (entry = "projectFiscalPath" /\ pc \in {"done", "assessed"}) =>
               results' = results
        /\ \A i \in 1..Len(returned) :
               /\ i <= Len(returned')
               /\ returned'[i] = returned[i] ]_vars

C22_Witness ==
    /\ entry = "projectFiscalPath"
    /\ pc = "assessed"
    /\ Len(results) = 3
    /\ options.structuralReform # <<>>
    /\ policyChanges.revenueChange = 50000
    /\ Len(assessments) = 1
    /\ Len(validation) = 1

----------------------------------------------------------------------------
(* The deficit of a year *)

\* the deficit of year n of the run, from the stocks at the start of the year
DeficitOfYear(n) ==
    (MACRO_BASELINE.primaryDeficit
         - (policyChanges.revenueChange - policyChanges.spendingChange))
    + MulRate(trace[n].debt, trace[n].effectiveRate)
    - MulRate(MulRate(trace[n].nominalGrowth - MACRO_BASELINE.nominalGrowth, trace[n].gdp),
              MACRO_BASELINE.taxElasticity)

\* the stocks at the start of year n: the baseline stocks in the first year,
\* then the stocks the year before left
StartOfYearStocks(n) ==
    IF n = 1
    THEN trace[n].gdp = MACRO_BASELINE.gdp /\ trace[n].debt = MACRO_BASELINE.debt
    ELSE /\ trace[n].gdp = EvolveGdp(trace[n - 1].gdp, trace[n - 1])
         /\ trace[n].debt = EvolveDebt(trace[n - 1].debt, trace[n - 1])

\* C23 as stated: in every year the primary deficit is the baseline primary
\* deficit - (revenueChange - spendingChange) and the deficit field of the
\* snapshot (in tenths) is primaryDeficit + debt * effectiveRate - growth
\* feedback (in thousandths)
C23_Original ==
    Projecting =>
        \A n \in 1..Len(trace) :
            /\ trace[n].primaryDeficit
                   = MACRO_BASELINE.primaryDeficit
                     - (policyChanges.revenueChange - policyChanges.spendingChange)
            /\ 100 * results[n].deficit = DeficitOfYear(n)

\* C23: in every year the primary deficit is the baseline primary deficit -
\* (revenueChange - spendingChange), the same in all years; the deficit of
\* the year is primaryDeficit + debt * effectiveRate - (nominalGrowth -
\* baseline nominal growth) * gdp * taxElasticity on the stocks at the start
\* of the year, and the deficit field of the snapshot is that value rounded
\* to one decimal
C23_DeficitFormula ==
    Projecting =>
        \A n \in 1..Len(trace) :
            /\ trace[n].primaryDeficit
                   = MACRO_BASELINE.primaryDeficit
                     - (policyChanges.revenueChange - policyChanges.spendingChange)
            /\ trace[n].primaryDeficit = trace[1].primaryDeficit
            /\ StartOfYearStocks(n)
            /\ trace[n].adjustedDeficit = DeficitOfYear(n)
            /\ results[n].deficit = MathRound(DeficitOfYear(n), 100)
            /\ results[n].primaryDeficit = MathRound(trace[n].primaryDeficit, 100)

C23_Witness ==
    /\ Projecting
    /\ Len(trace) = 4
    /\ policyChanges.revenueChange = -30000
    /\ policyChanges.spendingChange = -20000
    /\ trace[4].primaryDeficit = 94000
    /\ trace[4].growthFeedback > 0
    /\ 100 * results[4].deficit # trace[4].adjustedDeficit

----------------------------------------------------------------------------
(* Properties of BudgetSimulator *)

InBudgetSimulator == entry = "BudgetSimulator"

\* C24: the keys of taxRates are the taxes displayed in the current mode (no
\* advancedOnly tax in simple mode, no simpleOnly tax in advanced mode); a
\* mode change sets taxRates to the baseline rates of the new mode and leaves
\* spendingLevels as it is
C24_TaxRateKeys ==
    /\ [](InBudgetSimulator =>
             /\ DOMAIN taxRates = taxesToDisplay(isAdvancedMode)
             /\ isAdvancedMode => DOMAIN taxRates =
                    {"tva", "ir", "is", "cotisationsPatronalesLow",
                     "cotisationsPatronalesHigh"}
             /\ ~isAdvancedMode => DOMAIN taxRates =
                    {"tva", "ir", "is", "cotisationsPatronales"})
    /\ [][ (InBudgetSimulator /\ isAdvancedMode' # isAdvancedMode) =>
               /\ spendingLevels' = spendingLevels
               /\ \A taxId \in DOMAIN taxRates' :
                      taxRates'[taxId] = taxConfig[taxId].baselineRate ]_vars

C24_Witness ==
    /\ InBudgetSimulator
    /\ isAdvancedMode
    /\ taxRates["cotisationsPatronalesLow"] = 200
    /\ taxRates["tva"] = 150
    /\ spendingLevels["defense"] = 65000
    /\ "cotisationsPatronales" \notin DOMAIN taxRates

----------------------------------------------------------------------------
(* C25, C26: toggleReform, applyPreset and the sliders of App (v1.9) *)

InAppSession == entry \in AppEntries

\* C25: after any sequence of toggleReform and applyPreset, every key of
\* selectedReforms is a key of the STRUCTURAL_REFORMS catalog, so that the
\* memo combinedReformEffect never dereferences a missing catalog entry
C25_KeysInCatalog ==
    InAppSession =>
        /\ CatalogSelection
        /\ pc # "threw"

\* C26: after any sequence of slider changes and applyPreset, every lever
\* lies within the min and max of the slider that displays it
C26_LeversInRange ==
    InAppSession =>
        \A l \in LeverIds : /\ Sliders[l].min <= levers[l]
                            /\ levers[l] <= Sliders[l].max

----------------------------------------------------------------------------
(* C27: the reform-impact chart of App v1.8 *)

\* C27: whenever a reform is selected, for every horizon of the horizon
\* buttons and every offset y of the chart,
\* compareProjections(policyScenario, fullScenario, [y]) is not empty, so
\* that reading [0].debtRatioDiff is defined
C27_ChartDefined ==
    (entry = "App-v1.8" /\ selectedReform # "none") =>
        /\ \A i \in 1..Len(ChartOffsets) :
               Len(compareProjections(projections.policyScenario,
                                      projections.fullScenario,
                                      <<ChartOffsets[i]>>)) > 0
        /\ pc # "threw"

----------------------------------------------------------------------------
(* C28: the validation-warnings section of App (v1.9) *)

\* a call of projectFiscalPath as the memo projections of App makes it for
\* the full scenario: premium enabled, horizon within the horizon slider
FullScenarioCall ==
    /\ entry = "projectFiscalPath"
    /\ options.enableRiskPremium
    /\ options.years >= 5
    /\ options.years <= 20

\* C28: the validation-warnings section is displayed if and only if
\* validateProjection reported at least one warning for the full scenario,
\* that is exactly when the validity flag of the engine is false
C28_SectionIffWarnings ==
    (FullScenarioCall /\ pc = "assessed") =>
        /\ shown.validation <=> Len(validation[1].warnings) > 0
        /\ shown.validation <=> ~validation[1].valid

----------------------------------------------------------------------------
(* C29: a reform against no reform *)

\* a call of projectFiscalPath with a reform of growthEffect >= 0 has returned
ReformCallDone ==
    /\ entry = "projectFiscalPath"
    /\ pc = "done"
    /\ Len(options.structuralReform) > 0
    /\ options.structuralReform[1].growthEffect >= 0

\* the projection of the same policyImpact, horizon, political risk and
\* premium toggle without the reform
WithoutReform ==
    projectFiscalPath(policyChanges, [options EXCEPT !.structuralReform = NoReform])

AllOffsets == [i \in 1..Len(results) |-> i - 1]

\* C29: for identical policyImpact, horizon, political risk and premium
\* toggle and a reform with growthEffect >= 0, the debtRatio of every year of
\* the with-reform projection is at most that of the same year of the
\* no-reform projection, so that debtRatioDiff of
\* compareProjections(policyScenario, fullScenario) is >= 0 at every offset
C29_ReformNeverWorsens ==
    ReformCallDone =>
        /\ Len(WithoutReform) = Len(results)
        /\ \A i \in 1..Len(results) : results[i].debtRatio <= WithoutReform[i].debtRatio
        /\ LET c == compareProjections(WithoutReform, results, AllOffsets)
           IN  /\ Len(c) = Len(results)
               /\ \A i \in 1..Len(c) : c[i].debtRatioDiff >= 0

----------------------------------------------------------------------------
(* C30: the change from baseline at the default rates and levels *)

\* taxRates and spendingLevels are the defaults of the current mode
AtDefaults ==
    /\ InBudgetSimulator
    /\ taxRates = getDefaultTaxRates(isAdvancedMode)
    /\ spendingLevels = getDefaultSpendingLevels

\* a step that changes the mode
ModeChanged == InBudgetSimulator /\ isAdvancedMode' # isAdvancedMode

\* a step of handleReset that resets something
ResetDone ==
    /\ InBudgetSimulator
    /\ isAdvancedMode' = isAdvancedMode
    /\ ~AtDefaults
    /\ taxRates' = getDefaultTaxRates(isAdvancedMode)
    /\ spendingLevels' = getDefaultSpendingLevels

====
